---- MODULE Spec2Model ----
(***************************************************************************)
(* Subscription reconciliation of the payment service:                     *)
(*   src/services/subscriptionIntegrationService.js  (commands, upsert)    *)
(*   src/controllers/webhookController.js            (webhook handlers)    *)
(*   src/models/Subscription.js                      (schema and hooks)    *)
(*   src/routes/stripeWebhookRoutes.js               (second webhook route)*)
(*   src/index.js                                    (mounted endpoints)   *)
(*   src/services/metricRetryService.js              (queue of metrics)    *)
(*   src/controllers/paymentController.js            (checkout, metrics)   *)
(*   src/controllers/refundController.js             (refunds)             *)
(*                                                                         *)
(* The Subscription collection is a sequence of documents in natural       *)
(* order; a document is a function from the names of the fields it holds   *)
(* to their values, so a field that was never written is simply not in the *)
(* document's domain.  Instants are naturals (one unit = one month);      *)
(* negative integers stand for the values that are not valid instants.     *)
(***************************************************************************)
EXTENDS Integers, Sequences, FiniteSets, TLC

\* ---------------------------------------------------------------- bounds
\* the clock runs from 0 to MaxClock
MaxClock == 1
\* at most MaxOps operations of one behaviour change the collections
MaxOps == 2
\* the period end the provider reports
MaxPeriodEnd == 3
\* at most MaxEnqueues metrics are put on the queue of failed metrics
MaxEnqueues == 3
\* at most MaxSweeps runs of the hourly retry
MaxSweeps == 3
\* size to which storeFailedMetric trims the queue: 100 in the source,
\* scaled down so that a full queue is reached
OutboxCap == 2

\* ------------------------------------------------------------- constants
Users == {"u1"}
\* userId of a handler that resolved no user (undefined / null)
NoUser == "undefined"
\* natural order of the User collection
UserOrder == <<"u1">>

MonthLen == 1
YearLen == 12

\* values of an endDate that are not instants
NullV == -1
StrNull == -2
StrEmpty == -3
Garbage == -4
InvalidDate == -5
\* a provider field that the response does not carry
Missing == -6
\* a date given as a parsable string encodes instant t as DateStrBase + t
DateStrBase == 100

PRICE_MONTHLY == "price_monthly"
PRICE_ANNUAL == "price_annual"
PRICE_OTHER == "price_other"
Prices == {PRICE_MONTHLY, PRICE_ANNUAL, PRICE_OTHER}

CusOf(u) == "cus_" \o u
SubOf(u) == "sub_" \o u
UnknownCustomer == "cus_unknown"

\* fields declared by SubscriptionSchema (plus the timestamp updatedAt).
\* stripePriceId and sessionId, which the handlers write and no code reads,
\* are left out of the documents.
SchemaFields ==
  {"userId", "plan", "startDate", "endDate", "isActive", "status",
   "paymentMethod", "cancelationType", "stripeCustomerId",
   "stripeSubscriptionId", "lastPaymentDate",
   "lastTransactionId", "paymentStatus", "paymentFailureReason",
   "lastFailureDate", "updatedAt"}

VARIABLES
  subs,        \* the Subscription collection, in natural order
  role,        \* User collection: role of each user
  now,         \* the clock
  stripeCape,  \* provider side: cancel_at_period_end of each user's subscription
  last,        \* the last operation that changed a collection or the provider
  ops,         \* number of operations so far that changed a collection
  undefMode,   \* how the store treats a filter value of undefined: "null" or "any"
  queue,       \* failed-metrics.json: the metrics waiting for a retry, oldest first
  nextId,      \* number of metrics enqueued so far; the next one gets this identity
  sweeps,      \* number of runs of retryFailedMetrics so far
  deliveries,  \* for each metric, how many of its deliveries failed and whether one succeeded
  pc,          \* where each of two concurrent cancellation requests stands
  seen,        \* what each of the two requests has read so far
  updates,     \* number of cancellation updates the provider took from the two requests
  writers      \* where each concurrent writer of failed-metrics.json stands, and what it read

subVars == <<subs, role, now, stripeCape, last, ops, undefMode>>
outboxVars == <<queue, nextId, sweeps, deliveries>>
raceVars == <<pc, seen, updates, writers>>
vars == <<subs, role, now, stripeCape, last, ops, undefMode, queue, nextId, sweeps, deliveries,
          pc, seen, updates, writers>>

\* ------------------------------------------------------- document helpers
Has(d, f) == f \in DOMAIN d
Drop(d, f) == [g \in (DOMAIN d) \ {f} |-> d[g]]
Merge(d, upd) ==
  [f \in (DOMAIN d) \cup (DOMAIN upd) |-> IF f \in DOMAIN upd THEN upd[f] ELSE d[f]]
\* Mongoose strict mode: keys that the schema does not declare are not written
StrictFields(d) == [f \in (DOMAIN d) \cap SchemaFields |-> d[f]]

\* new Date(v).getTime(): the instant, or InvalidDate (NaN) when v does not parse
ParseDate(v) ==
  IF v >= DateStrBase THEN v - DateStrBase
  ELSE IF v >= 0 THEN v
  ELSE InvalidDate
IsNaNDate(v) == ParseDate(v) = InvalidDate

\* defaults of SubscriptionSchema, applied when an upsert inserts
SchemaDefaults(t) ==
  [plan |-> "free", startDate |-> t, isActive |-> TRUE, status |-> "active",
   paymentMethod |-> "stripe", cancelationType |-> "null"]

\* ------------------------------------------------------------ the store
\* does document d match the filter { userId: uid } ?
MatchUserId(d, uid, mode) ==
  IF uid = NoUser
    THEN IF mode = "any" THEN TRUE ELSE d.userId = NoUser
    ELSE d.userId = uid

\* index of the first document satisfying P, 0 when there is none
FirstIdx(s, P(_)) ==
  IF \E i \in 1..Len(s) : P(s[i])
    THEN CHOOSE i \in 1..Len(s) : P(s[i]) /\ \A j \in 1..(i - 1) : ~P(s[j])
    ELSE 0

\* pre('findOneAndUpdate') hook of the schema
PreFindOneAndUpdate(update) ==
  IF Has(update, "endDate")
    THEN IF update.endDate \in {NullV, StrNull, StrEmpty} THEN Drop(update, "endDate")
         ELSE IF IsNaNDate(update.endDate) THEN Drop(update, "endDate")
         ELSE update
    ELSE update

\* the schema casts a parsable endDate to a Date
CastUpdate(update) ==
  IF Has(update, "endDate")
    THEN [update EXCEPT !["endDate"] = ParseDate(@)]
    ELSE update

\* mutant: an upsert that inserts without looking for the user's document
FindOneAndUpdate_AlwaysInsert(s, uid, update, upsert, mode, t) ==
  LET u1 == CastUpdate(StrictFields(PreFindOneAndUpdate(update)))
  IN IF upsert
       THEN Append(s, Merge(Merge(SchemaDefaults(t), [userId |-> uid]), u1))
       ELSE s

\* mutant: an update that replaces the document it finds instead of setting
\* the fields of the update on it
FindOneAndUpdate_Overwrite(s, uid, update, upsert, mode, t) ==
  LET u1 == CastUpdate(StrictFields(PreFindOneAndUpdate(update)))
      i == FirstIdx(s, LAMBDA d : MatchUserId(d, uid, mode))
  IN IF i > 0
       THEN [s EXCEPT ![i] = Merge(Merge(SchemaDefaults(t), [userId |-> @.userId]), u1)]
       ELSE IF upsert
              THEN Append(s, Merge(Merge(SchemaDefaults(t), [userId |-> uid]), u1))
              ELSE s

\* Subscription.findOneAndUpdate({ userId: uid }, update, { upsert })
FindOneAndUpdate(s, uid, update, upsert, mode, t) ==
  LET u1 == CastUpdate(StrictFields(PreFindOneAndUpdate(update)))
      i == FirstIdx(s, LAMBDA d : MatchUserId(d, uid, mode))
  IN IF i > 0
       THEN [s EXCEPT ![i] = Merge(@, u1)]
       ELSE IF upsert
              THEN Append(s, Merge(Merge(SchemaDefaults(t), [userId |-> uid]), u1))
              ELSE s

\* User.findByIdAndUpdate(uid, { role: r })
SetRole(r, uid, newRole, mode) ==
  IF uid \in Users THEN [r EXCEPT ![uid] = newRole]
  ELSE IF mode = "any" THEN [r EXCEPT ![UserOrder[1]] = newRole]
  ELSE r

\* ------------------------------------------------- updateSubscription
\* mutant: new Date(data.endDate) taken without the checks, so that null
\* and the values that do not parse become the epoch
ValidateEndDate_Epoch(data) ==
  IF Has(data, "endDate")
    THEN [data EXCEPT !["endDate"] = IF IsNaNDate(@) THEN 0 ELSE ParseDate(@)]
    ELSE data

\* validation of data.endDate at the head of updateSubscription
ValidateEndDate(data) ==
  IF Has(data, "endDate")
    THEN IF data.endDate \in {NullV, StrNull, StrEmpty} THEN Drop(data, "endDate")
         ELSE IF IsNaNDate(data.endDate) THEN Drop(data, "endDate")
         ELSE [data EXCEPT !["endDate"] = ParseDate(@)]
    ELSE data

Truthy(data, f) == Has(data, f) /\ data[f] = TRUE

\* mutant: every update to canceled takes the role back, whatever
\* updateUserRole and isActive say
RoleAfterUpdate_DemotesCanceled(r, uid, data, mode) ==
  IF Has(data, "status") /\ data.status = "canceled"
    THEN SetRole(r, uid, "user", mode)
  ELSE IF Truthy(data, "updateUserRole") /\ Has(data, "status") /\ data.status = "active"
          /\ Truthy(data, "isActive")
    THEN SetRole(r, uid, "premium", mode)
  ELSE r

\* role change asked for by data.updateUserRole
RoleAfterUpdate(r, uid, data, mode) ==
  IF Truthy(data, "updateUserRole")
    THEN IF Has(data, "status") /\ data.status = "active" /\ Truthy(data, "isActive")
           THEN SetRole(r, uid, "premium", mode)
         ELSE IF Has(data, "status") /\ data.status = "canceled" /\ ~Truthy(data, "isActive")
           THEN SetRole(r, uid, "user", mode)
         ELSE r
    ELSE r

\* a world is the pair of collections; w.subs and w.role
updateSubscription(w, uid, data, mode, t) ==
  LET d1 == ValidateEndDate(data)
  IN [subs |-> FindOneAndUpdate(w.subs, uid, Merge(d1, [updatedAt |-> t]), TRUE, mode, t),
      role |-> RoleAfterUpdate(w.role, uid, d1, mode)]

getUserIdFromCustomerId(w, customerId) ==
  LET i == FirstIdx(w.subs, LAMBDA d : Has(d, "stripeCustomerId") /\ d.stripeCustomerId = customerId)
  IN IF i > 0 THEN w.subs[i].userId ELSE NoUser

\* mutant: the two price identifiers of the environment swapped
getPlanFromStripePrice_Swapped(priceId) ==
  IF priceId = PRICE_ANNUAL THEN "monthly"
  ELSE IF priceId = PRICE_MONTHLY THEN "annual"
  ELSE "premium"

getPlanFromStripePrice(priceId) ==
  IF priceId = PRICE_ANNUAL THEN "annual"
  ELSE IF priceId = PRICE_MONTHLY THEN "monthly"
  ELSE "premium"

World == [subs |-> subs, role |-> role]

\* ------------------------------------------------------------ webhooks
\* Every handler maps a world to a result: the new collections, how the
\* handler ended ("ok", or "error" when it threw), the provider calls it
\* issued and the period end the provider reported to it.
Result(w, outcome, calls, pe) ==
  [subs |-> w.subs, role |-> w.role, outcome |-> outcome, calls |-> calls, pe |-> pe]

PeriodEnds == {MaxPeriodEnd}
ProviderStatuses == {"active", "canceled", "incomplete"}

\* checkout.session.completed: event.data.object
CheckoutSessions ==
  {[id |-> "cs_live", userId |-> u,
    customer |-> IF u = NoUser THEN UnknownCustomer ELSE CusOf(u),
    plan |-> p, subscription |-> "sub", payment_intent |-> "pi_1"] :
     u \in Users \cup {NoUser}, p \in {"monthly", "none"}}
  \cup
  {[id |-> "cs_test_simulated", userId |-> u, customer |-> CusOf(u),
    plan |-> "monthly", subscription |-> "sub", payment_intent |-> "null"] : u \in Users}

\* stripe.subscriptions.retrieve in the checkout handler: the price of the
\* subscription's first item, or "fail" when the call throws
RetrieveOutcomes == {PRICE_MONTHLY, PRICE_ANNUAL, "fail"}

handleCheckoutSessionCompleted(w, session, retrieved, mode, t) ==
  IF session.userId = NoUser
    THEN Result(w, "error", {}, Missing)
    ELSE
      LET userId == session.userId
          isTest == session.id = "cs_test_simulated"
          doRetrieve == session.subscription # "null" /\ ~isTest
          gotSub == doRetrieve /\ retrieved # "fail"
          stripeSubscriptionId == IF gotSub THEN SubOf(userId) ELSE "null"
          plan == IF gotSub THEN getPlanFromStripePrice(retrieved)
                  ELSE IF session.plan = "none" THEN "premium" ELSE session.plan
          w1 == updateSubscription(w, userId,
                  [plan |-> plan, status |-> "active", paymentMethod |-> "stripe",
                   isActive |-> TRUE,
                   stripeCustomerId |-> session.customer,
                   stripeSubscriptionId |-> stripeSubscriptionId,
                   startDate |-> t,
                   lastPaymentDate |-> t,
                   lastTransactionId |-> IF session.payment_intent # "null"
                                           THEN session.payment_intent ELSE session.id,
                   updateUserRole |-> TRUE], mode, t)
      IN Result(w1, "ok", IF doRetrieve THEN {"retrieve"} ELSE {}, Missing)

\* customer.subscription.deleted / updated: event.data.object
Customers == {CusOf(u) : u \in Users} \cup {UnknownCustomer}
SubIdOfCustomer(c) == IF c = UnknownCustomer THEN "sub_unknown" ELSE "sub_" \o SubSeq(c, 5, Len(c))

DeletedEvents == [customer : Customers]

handleSubscriptionDeleted(w, subscription, mode, t) ==
  LET userId == getUserIdFromCustomerId(w, subscription.customer)
      w1 == updateSubscription(w, userId,
              [status |-> "canceled", plan |-> "free",
               stripeSubscriptionId |-> SubIdOfCustomer(subscription.customer),
               updateUserRole |-> TRUE], mode, t)
  IN Result(w1, "ok", {}, Missing)

\* the provider keeps a subscription that is scheduled for cancellation
\* active; of an unknown customer one event is enough
UpdatedEvents ==
  [customer : {CusOf(u) : u \in Users}, status : {"active"},
   cancel_at_period_end : {"true", "false"},
   current_period_end : PeriodEnds \cup {Missing},
   price : {PRICE_ANNUAL, PRICE_OTHER}]
  \cup
  [customer : {CusOf(u) : u \in Users}, status : ProviderStatuses \ {"active"},
   cancel_at_period_end : {"false"},
   current_period_end : PeriodEnds \cup {Missing},
   price : {PRICE_ANNUAL, PRICE_OTHER}]
  \cup
  [customer : {UnknownCustomer}, status : {"active"}, cancel_at_period_end : {"false"},
   current_period_end : PeriodEnds, price : {PRICE_ANNUAL}]

\* mutant: the flag cancel_at_period_end is not looked at; the provider's
\* status is mirrored whatever the flag says
handleSubscriptionUpdated_IgnoresFlag(w, subscription, mode, t) ==
  LET userId == getUserIdFromCustomerId(w, subscription.customer)
      endDate == IF subscription.current_period_end = Missing
                   THEN InvalidDate ELSE subscription.current_period_end
      updateData == [plan |-> getPlanFromStripePrice(subscription.price),
                     stripeSubscriptionId |-> SubIdOfCustomer(subscription.customer),
                     endDate |-> endDate,
                     status |-> subscription.status,
                     isActive |-> (subscription.status = "active"),
                     updateUserRole |-> (subscription.status # "active")]
  IN IF userId = NoUser
       THEN Result(w, "noop", {}, Missing)
       ELSE Result(updateSubscription(w, userId, updateData, mode, t), "ok", {}, Missing)

handleSubscriptionUpdated(w, subscription, mode, t) ==
  LET userId == getUserIdFromCustomerId(w, subscription.customer)
      plan == getPlanFromStripePrice(subscription.price)
      \* new Date(current_period_end * 1000)
      endDate == IF subscription.current_period_end = Missing
                   THEN InvalidDate ELSE subscription.current_period_end
      base == [plan |-> plan,
               stripeSubscriptionId |-> SubIdOfCustomer(subscription.customer),
               endDate |-> endDate, updateUserRole |-> FALSE]
      updateData ==
        IF subscription.cancel_at_period_end = "true"
          THEN Merge(base, [status |-> "canceled", isActive |-> TRUE,
                            cancelationType |-> "end_of_period"])
        ELSE IF subscription.cancel_at_period_end = "false" /\ subscription.status = "active"
          THEN Merge(base, [status |-> "active", isActive |-> TRUE,
                            cancelationType |-> "null", updateUserRole |-> TRUE])
        ELSE Merge(base, [status |-> subscription.status,
                          isActive |-> (subscription.status = "active"),
                          updateUserRole |-> (subscription.status # "active")])
  IN IF userId = NoUser
       THEN Result(w, "noop", {}, Missing)
       ELSE Result(updateSubscription(w, userId, updateData, mode, t), "ok", {}, Missing)

InvoiceEvents == [customer : Customers]

\* index of the user's document, 0 when there is none
IdxOf(s, uid) == FirstIdx(s, LAMBDA d : d.userId = uid)
HasDoc(s, uid) == IdxOf(s, uid) > 0
DocOf(s, uid) == s[IdxOf(s, uid)]
EndOf(d) == IF Has(d, "endDate") THEN d.endDate ELSE Missing

\* mutant: a payment also pushes the stored end of the period one month on
recordSubscriptionPayment_Extends(w, userId, transactionId, mode, t) ==
  [w EXCEPT !.subs = FindOneAndUpdate(@, userId,
     IF HasDoc(w.subs, userId) /\ Has(DocOf(w.subs, userId), "endDate")
       THEN [lastPaymentDate |-> t, lastTransactionId |-> transactionId,
             paymentStatus |-> "success", updatedAt |-> t,
             endDate |-> DocOf(w.subs, userId).endDate + MonthLen]
       ELSE [lastPaymentDate |-> t, lastTransactionId |-> transactionId,
             paymentStatus |-> "success", updatedAt |-> t], FALSE, mode, t)]

\* findOneAndUpdate of the two payment recorders: no upsert
recordSubscriptionPayment(w, userId, transactionId, mode, t) ==
  [w EXCEPT !.subs = FindOneAndUpdate(@, userId,
     [lastPaymentDate |-> t, lastTransactionId |-> transactionId,
      paymentStatus |-> "success", updatedAt |-> t], FALSE, mode, t)]

\* mutant: a failed payment also cancels the subscription
recordPaymentFailure_Cancels(w, userId, failureReason, mode, t) ==
  [w EXCEPT !.subs = FindOneAndUpdate(@, userId,
     [paymentStatus |-> "failed", paymentFailureReason |-> failureReason,
      lastFailureDate |-> t, updatedAt |-> t, status |-> "canceled"], FALSE, mode, t)]

recordPaymentFailure(w, userId, failureReason, mode, t) ==
  [w EXCEPT !.subs = FindOneAndUpdate(@, userId,
     [paymentStatus |-> "failed", paymentFailureReason |-> failureReason,
      lastFailureDate |-> t, updatedAt |-> t], FALSE, mode, t)]

handleInvoicePaid(w, invoice, mode, t) ==
  LET userId == getUserIdFromCustomerId(w, invoice.customer)
  IN Result(recordSubscriptionPayment(w, userId, "in_1", mode, t), "ok", {}, Missing)

handleInvoicePaymentFailed(w, invoice, mode, t) ==
  LET userId == getUserIdFromCustomerId(w, invoice.customer)
  IN Result(recordPaymentFailure(w, userId, "unknown", mode, t), "ok", {}, Missing)

\* ------------------------------------------------------------ commands
\* What the provider does to the calls of one command: which call fails and
\* how ("missing" = resource_missing, "error" = any other failure), and the
\* current_period_end its answer carries.
ProviderEnvs ==
  [fail : {"none", "retrieve_missing", "retrieve_error", "update_missing", "update_error"},
   pe : PeriodEnds \cup {Missing}]

NoEnv == [fail |-> "none", pe |-> Missing]

CapeOf(cape, sid) == IF sid \in DOMAIN cape THEN cape[sid] ELSE FALSE
SetCape(cape, sid, v) == IF sid \in DOMAIN cape THEN [cape EXCEPT ![sid] = v] ELSE cape

\* truthiness of subscription.stripeSubscriptionId
HasStripeId(d) == Has(d, "stripeSubscriptionId") /\ d.stripeSubscriptionId # "null"

\* local period end: now + 1 year for the annual plan, now + 1 month otherwise
LocalPeriodEnd(d, t) == IF d.plan = "annual" THEN t + YearLen ELSE t + MonthLen

CmdResult(w, cape, outcome, calls, pe) ==
  [subs |-> w.subs, role |-> w.role, cape |-> cape, outcome |-> outcome,
   calls |-> calls, pe |-> pe]

\* mutant: the lookup of the active subscription without the status
IsActiveDoc_AnyStatus(d, uid) == d.userId = uid /\ d.isActive

IsActiveDoc(d, uid) == d.userId = uid /\ d.status = "active" /\ d.isActive
IsScheduledDoc(d, uid) ==
  d.userId = uid /\ d.status = "canceled" /\ d.isActive /\ d.cancelationType # "immediate"
IsExpiredDoc(d, uid) == d.userId = uid /\ d.status = "canceled" /\ ~d.isActive

cancelSubscriptionAtPeriodEnd(w, cape, uid, env, mode, t) ==
  LET i == FirstIdx(w.subs, LAMBDA d : IsActiveDoc(d, uid))
  IN IF i = 0
       THEN \* already scheduled, expired, or no subscription: all three throw
            CmdResult(w, cape,
              IF FirstIdx(w.subs, LAMBDA d : IsScheduledDoc(d, uid)) > 0 THEN "already_scheduled"
              ELSE IF FirstIdx(w.subs, LAMBDA d : IsExpiredDoc(d, uid)) > 0 THEN "expired"
              ELSE "not_found", {}, Missing)
       ELSE
         LET sub == w.subs[i]
             sid == sub.stripeSubscriptionId
             stored == IF Has(sub, "endDate") THEN sub.endDate ELSE Missing
             fallback == LocalPeriodEnd(sub, t)
             already == CapeOf(cape, sid)
             write(endDate) ==
               updateSubscription(w, uid,
                 [status |-> "canceled", isActive |-> TRUE, endDate |-> endDate,
                  cancelationType |-> "end_of_period", updateUserRole |-> FALSE], mode, t)
         IN IF ~HasStripeId(sub)
              THEN CmdResult(write(fallback), cape, "ok", {}, Missing)
            ELSE IF env.fail = "retrieve_missing"
              THEN CmdResult(write(fallback), cape, "ok", {"retrieve"}, Missing)
            ELSE IF env.fail = "retrieve_error"
              THEN CmdResult(w, cape, "error", {"retrieve"}, Missing)
            ELSE IF already
              THEN LET e1 == IF env.pe # Missing THEN env.pe ELSE stored
                       e2 == IF e1 = Missing THEN fallback ELSE e1
                   IN CmdResult(write(e2), cape, "ok", {"retrieve"}, env.pe)
            ELSE IF env.fail = "update_missing"
              THEN CmdResult(write(fallback), cape, "ok", {"retrieve", "update"}, Missing)
            ELSE IF env.fail = "update_error"
              THEN CmdResult(w, cape, "error", {"retrieve", "update"}, Missing)
            ELSE LET e1 == IF env.pe # Missing /\ env.pe > 0 THEN env.pe ELSE stored
                     e2 == IF e1 = Missing THEN fallback ELSE e1
                 IN CmdResult(write(e2), SetCape(cape, sid, TRUE), "ok",
                              {"retrieve", "update"}, env.pe)

\* mutant: the lookup of the reactivable subscription without the cancelation type
IsReactivableDoc_AnyType(d, uid) == d.userId = uid /\ d.status = "canceled" /\ d.isActive

IsReactivableDoc(d, uid) ==
  d.userId = uid /\ d.status = "canceled" /\ d.isActive /\ d.cancelationType = "end_of_period"

\* mutant: the reactivation leaves the cancelation type of the record
reactivateSubscription_KeepsType(w, cape, uid, env, mode, t) ==
  LET i == FirstIdx(w.subs, LAMBDA d : IsReactivableDoc(d, uid))
  IN IF i = 0
       THEN CmdResult(w, cape, "not_found", {}, Missing)
       ELSE
         LET sub == w.subs[i]
             w1 == updateSubscription(w, uid,
                     [status |-> "active", isActive |-> TRUE, updateUserRole |-> TRUE], mode, t)
         IN IF ~HasStripeId(sub)
              THEN CmdResult(w1, cape, "ok", {}, Missing)
            ELSE IF env.fail \in {"update_missing", "update_error"}
              THEN CmdResult(w, cape, "error", {"update"}, Missing)
            ELSE CmdResult(w1, SetCape(cape, sub.stripeSubscriptionId, FALSE), "ok",
                           {"update"}, Missing)

\* mutant: the record is written before the provider is called, and the
\* write stays when the call fails
reactivateSubscription_WritesFirst(w, cape, uid, env, mode, t) ==
  LET i == FirstIdx(w.subs, LAMBDA d : IsReactivableDoc(d, uid))
  IN IF i = 0
       THEN CmdResult(w, cape, "not_found", {}, Missing)
       ELSE
         LET sub == w.subs[i]
             w1 == updateSubscription(w, uid,
                     [status |-> "active", isActive |-> TRUE, cancelationType |-> "null",
                      updateUserRole |-> TRUE], mode, t)
         IN IF ~HasStripeId(sub)
              THEN CmdResult(w1, cape, "ok", {}, Missing)
            ELSE IF env.fail \in {"update_missing", "update_error"}
              THEN CmdResult(w1, cape, "error", {"update"}, Missing)
            ELSE CmdResult(w1, SetCape(cape, sub.stripeSubscriptionId, FALSE), "ok",
                           {"update"}, Missing)

reactivateSubscription(w, cape, uid, env, mode, t) ==
  LET i == FirstIdx(w.subs, LAMBDA d : IsReactivableDoc(d, uid))
  IN IF i = 0
       THEN CmdResult(w, cape, "not_found", {}, Missing)
       ELSE
         LET sub == w.subs[i]
             w1 == updateSubscription(w, uid,
                     [status |-> "active", isActive |-> TRUE, cancelationType |-> "null",
                      updateUserRole |-> TRUE], mode, t)
         IN IF ~HasStripeId(sub)
              THEN CmdResult(w1, cape, "ok", {}, Missing)
            ELSE IF env.fail \in {"update_missing", "update_error"}
              THEN CmdResult(w, cape, "error", {"update"}, Missing)
            ELSE CmdResult(w1, SetCape(cape, sub.stripeSubscriptionId, FALSE), "ok",
                           {"update"}, Missing)

\* mutant: the new period end of the provider's answer is not read
EffectiveDate_Now(env, t) == t

\* effectiveDate: now, replaced by the provider's current_period_end when the
\* answer carries one
EffectiveDate(env, t) == IF env.pe # Missing THEN env.pe ELSE t

\* mutant: the test of the new plan against the current one is left out
changePlan_AllowsSamePlan(w, cape, uid, newPlan, env, mode, t) ==
  LET i == FirstIdx(w.subs, LAMBDA d : IsActiveDoc(d, uid))
  IN IF i = 0
       THEN CmdResult(w, cape, "not_found", {}, Missing)
     ELSE
       LET sub == w.subs[i]
           write(effectiveDate) ==
             updateSubscription(w, uid,
               [plan |-> newPlan, endDate |-> effectiveDate, updateUserRole |-> FALSE],
               mode, t)
       IN IF ~HasStripeId(sub)
            THEN CmdResult(write(t), cape, "ok", {}, Missing)
          ELSE IF env.fail \in {"retrieve_missing", "retrieve_error"}
            THEN CmdResult(w, cape, "error", {"retrieve"}, Missing)
          ELSE IF env.fail \in {"update_missing", "update_error"}
            THEN CmdResult(w, cape, "error", {"retrieve", "update"}, Missing)
          ELSE CmdResult(write(EffectiveDate(env, t)), cape, "ok",
                         {"retrieve", "update"}, env.pe)

changePlan(w, cape, uid, newPlan, env, mode, t) ==
  LET i == FirstIdx(w.subs, LAMBDA d : IsActiveDoc(d, uid))
  IN IF i = 0
       THEN CmdResult(w, cape, "not_found", {}, Missing)
     ELSE IF w.subs[i].plan = newPlan
       THEN CmdResult(w, cape, "same_plan", {}, Missing)
     ELSE
       LET sub == w.subs[i]
           write(effectiveDate) ==
             updateSubscription(w, uid,
               [plan |-> newPlan, endDate |-> effectiveDate, updateUserRole |-> FALSE],
               mode, t)
       IN IF ~HasStripeId(sub)
            THEN CmdResult(write(t), cape, "ok", {}, Missing)
          ELSE IF env.fail \in {"retrieve_missing", "retrieve_error"}
            THEN CmdResult(w, cape, "error", {"retrieve"}, Missing)
          ELSE IF env.fail \in {"update_missing", "update_error"}
            THEN CmdResult(w, cape, "error", {"retrieve", "update"}, Missing)
          ELSE CmdResult(write(EffectiveDate(env, t)), cape, "ok",
                         {"retrieve", "update"}, env.pe)

IsCancelableDoc(d, uid) == d.userId = uid /\ d.status \in {"active", "canceled"} /\ d.isActive

\* mutant: a subscription the provider no longer knows is an error too
cancelSubscriptionImmediately_StrictMissing(w, cape, uid, env, mode, t) ==
  LET i == FirstIdx(w.subs, LAMBDA d : IsCancelableDoc(d, uid))
  IN IF i = 0
       THEN CmdResult(w, cape, "not_found", {}, Missing)
       ELSE
         LET sub == w.subs[i]
             w1 == updateSubscription(w, uid,
                     [status |-> "canceled", endDate |-> t, isActive |-> FALSE,
                      cancelationType |-> "immediate", updateUserRole |-> TRUE], mode, t)
         IN IF ~HasStripeId(sub)
              THEN CmdResult(w1, cape, "ok", {}, Missing)
            ELSE IF env.fail \in {"update_error", "update_missing"}
              THEN CmdResult(w, cape, "error", {"cancel"}, Missing)
            ELSE CmdResult(w1, cape, "ok", {"cancel"}, Missing)

cancelSubscriptionImmediately(w, cape, uid, env, mode, t) ==
  LET i == FirstIdx(w.subs, LAMBDA d : IsCancelableDoc(d, uid))
  IN IF i = 0
       THEN CmdResult(w, cape, "not_found", {}, Missing)
       ELSE
         LET sub == w.subs[i]
             w1 == updateSubscription(w, uid,
                     [status |-> "canceled", endDate |-> t, isActive |-> FALSE,
                      cancelationType |-> "immediate", updateUserRole |-> TRUE], mode, t)
         IN IF ~HasStripeId(sub)
              THEN CmdResult(w1, cape, "ok", {}, Missing)
            ELSE IF env.fail = "update_error"
              THEN CmdResult(w, cape, "error", {"cancel"}, Missing)
            ELSE CmdResult(w1, cape, "ok", {"cancel"}, Missing)

\* ------------------------------------------------------ webhook ingress
EventTypes ==
  {"checkout.session.completed", "customer.subscription.deleted",
   "customer.subscription.updated", "invoice.paid", "invoice.payment_failed",
   "customer.created"}

\* the events of one type; "customer.created" stands for the types the
\* switch does not recognize
EventsOf(type) ==
  [type : {type},
   object : IF type = "checkout.session.completed" THEN CheckoutSessions
            ELSE IF type = "customer.subscription.deleted" THEN DeletedEvents
            ELSE IF type = "customer.subscription.updated" THEN UpdatedEvents
            ELSE IF type = "customer.created" THEN [customer : {UnknownCustomer}]
            ELSE InvoiceEvents]

WebhookEvents == UNION {EventsOf(type) : type \in EventTypes}

\* the switch of processWebhookEvent; a handler that throws is caught and
\* acknowledged, an unrecognized type is acknowledged and ignored
processWebhookEvent(w, event, retrieved, mode, t) ==
  IF event.type = "checkout.session.completed"
    THEN handleCheckoutSessionCompleted(w, event.object, retrieved, mode, t)
  ELSE IF event.type = "customer.subscription.deleted"
    THEN handleSubscriptionDeleted(w, event.object, mode, t)
  ELSE IF event.type = "customer.subscription.updated"
    THEN handleSubscriptionUpdated(w, event.object, mode, t)
  ELSE IF event.type = "invoice.paid"
    THEN handleInvoicePaid(w, event.object, mode, t)
  ELSE IF event.type = "invoice.payment_failed"
    THEN handleInvoicePaymentFailed(w, event.object, mode, t)
  ELSE Result(w, "ignored", {}, Missing)

\* ------------------------------------------- the route /webhooks/stripe
\* The router of stripeWebhookRoutes handles three event types itself, on
\* event.data.object, without the controller.
\* the three types the switch handles
RouteHandledTypes ==
  {"checkout.session.completed", "invoice.payment_succeeded", "customer.subscription.deleted"}

\* "invoice.paid" and "invoice.payment_failed" stand for the types that
\* fall to the default of the switch
RouteEventTypes == RouteHandledTypes \cup {"invoice.paid", "invoice.payment_failed"}

RouteEventsOf(type) ==
  [type : {type},
   object : IF type = "checkout.session.completed"
              THEN [id : {"cs_live"}, userId : Users \cup {NoUser}, customer : {"cus"}]
              ELSE [customer : Customers]]

\* mutant: the case of the deletion is the default of the switch
stripeWebhookRoute_DeletionByDefault(w, event, mode, t) ==
  LET o == event.object
      userId == getUserIdFromCustomerId(w, o.customer)
  IN IF event.type = "checkout.session.completed"
       THEN Result(updateSubscription(w, o.userId,
                     [plan |-> "monthly", paymentMethod |-> "stripe", status |-> "active",
                      stripeCustomerId |-> IF o.userId = NoUser THEN UnknownCustomer
                                           ELSE CusOf(o.userId),
                      stripeSubscriptionId |-> o.id, updateUserRole |-> TRUE], mode, t),
                   "ok", {}, Missing)
     ELSE IF userId = NoUser
       THEN Result(w, "ok", {}, Missing)
     ELSE IF event.type = "invoice.payment_succeeded"
       THEN Result(updateSubscription(w, userId,
                     [status |-> "active", endDate |-> t + MonthLen], mode, t),
                   "ok", {}, Missing)
     ELSE Result(updateSubscription(w, userId,
                   [status |-> "canceled", plan |-> "free", updateUserRole |-> TRUE], mode, t),
                 "ok", {}, Missing)

stripeWebhookRoute(w, event, mode, t) ==
  LET o == event.object
      userId == getUserIdFromCustomerId(w, o.customer)
  IN IF event.type \notin RouteHandledTypes
       THEN Result(w, "ignored", {}, Missing)
     ELSE IF event.type = "checkout.session.completed"
       THEN Result(updateSubscription(w, o.userId,
                     [plan |-> "monthly", paymentMethod |-> "stripe", status |-> "active",
                      stripeCustomerId |-> IF o.userId = NoUser THEN UnknownCustomer
                                           ELSE CusOf(o.userId),
                      stripeSubscriptionId |-> o.id, updateUserRole |-> TRUE], mode, t),
                   "ok", {}, Missing)
     ELSE IF userId = NoUser
       THEN Result(w, "ok", {}, Missing)
     ELSE IF event.type = "invoice.payment_succeeded"
       THEN Result(updateSubscription(w, userId,
                     [status |-> "active", endDate |-> t + MonthLen], mode, t),
                   "ok", {}, Missing)
     ELSE Result(updateSubscription(w, userId,
                   [status |-> "canceled", plan |-> "free", updateUserRole |-> TRUE], mode, t),
                 "ok", {}, Missing)

\* ------------------------------------------------ the mounted endpoints
\* index.js mounts POST /webhook on the controller and the router of
\* stripeWebhookRoutes under /webhooks. What an endpoint answers: the
\* collections afterwards and the status code of the response.
Response(w, status) == [subs |-> w.subs, role |-> w.role, status |-> status]

\* the handlers of the controller that call the store: every recognized
\* one, but for the checkout handler that throws on a missing userId first
ReachesStore(event) ==
  /\ event.type # "customer.created"
  /\ ~(event.type = "checkout.session.completed" /\ event.object.userId = NoUser)

\* POST /webhook: constructEvent verifies the signature (400 when it
\* fails), then processWebhookEvent answers 200 on every path, its catch
\* included. A store that cannot be reached makes the handler throw at its
\* first call to it, before anything is written.
handleStripeWebhook(w, event, signed, storeUp, retrieved, mode, t) ==
  IF ~signed THEN Response(w, 400)
  ELSE IF ~storeUp /\ ReachesStore(event) THEN Response(w, 200)
  ELSE Response(processWebhookEvent(w, event, retrieved, mode, t), 200)

\* POST /webhooks/stripe: the same verification; the catch of the switch
\* answers 500. Each of the three cases starts with a call to the store;
\* the default of the switch makes none.
stripeWebhookRouter(w, event, signed, storeUp, mode, t) ==
  IF ~signed THEN Response(w, 400)
  ELSE IF ~storeUp /\ event.type \in RouteHandledTypes THEN Response(w, 500)
  ELSE Response(stripeWebhookRoute(w, event, mode, t), 200)

\* POST /webhooks/simulate/checkout: the body of the request, parsed as JSON
SimulateBodies == [userId : Users \cup {NoUser}, plan : {"annual", "none"}]

fakeSession(body) ==
  [id |-> "cs_test_simulated", customer |-> "cus_fake123", subscription |-> "sub_fake123",
   userId |-> body.userId,
   plan |-> IF body.plan = "none" THEN "monthly" ELSE body.plan,
   payment_intent |-> "null"]

\* the handler of the controller is called on the fake session; no
\* signature is asked for and the route is mounted in every environment
simulateCheckout(w, body, storeUp, mode, t) ==
  LET r == handleCheckoutSessionCompleted(w, fakeSession(body), "fail", mode, t)
  IN IF r.outcome = "error" \/ ~storeUp THEN Response(w, 500) ELSE Response(r, 200)

\* ------------------------------------------------------------- refunds
\* What the provider does to the calls of one processRefund: the payment
\* intent the checkout session names ("null" when it names none, "fail"
\* when the retrieve throws), the answer to refunds.create, the answer to
\* subscriptions.cancel, and the number of days of the month that has
\* passed since the payment.
RefundEnvs ==
  [session : {"pi_1", "null", "fail"},
   refund : {"ok", "already_refunded", "missing", "error"},
   cancel : {"ok", "missing", "error"},
   days : {30, 31}]

\* the window of a refund, in days
RefundWindowDays == 30

\* Math.floor((Date.now() - lastPaymentDate) / one day)
DaysSincePayment(d, t, env) == (t - d.lastPaymentDate) * env.days

\* the record processRefund looks for
IsRefundableDoc(d, uid) ==
  d.userId = uid /\ d.status \in {"active", "canceled"} /\ Has(d, "lastTransactionId")

\* paymentIntentId.startsWith('cs_')
IsSessionId(id) == id \in {"cs_live", "cs_test_simulated"}

\* the answer of processRefund: the collections, the status code, the
\* provider calls issued, whether the provider made a refund, and whether
\* the provider's subscription is still alive after a cancel that failed
RefundResult(w, status, calls, refunded, alive) ==
  [subs |-> w.subs, role |-> w.role, status |-> status, calls |-> calls,
   refunded |-> refunded, alive |-> alive]

\* Subscription.findByIdAndUpdate of processRefund; refundStatus,
\* refundAmount, refundDate and refundReason are not fields of the schema
\* and are dropped by the strict mode
RefundWrite(s, i, refunded, t) ==
  [s EXCEPT ![i] = Merge(@, StrictFields(
     [status |-> "canceled", isActive |-> FALSE, cancelationType |-> "immediate",
      refundStatus |-> IF refunded THEN "processed" ELSE "manual_pending",
      refundDate |-> t, updatedAt |-> t]))]

\* RefundController.processRefund for the authenticated user uid
processRefund(w, uid, env, t) ==
  LET i == FirstIdx(w.subs, LAMBDA d : IsRefundableDoc(d, uid))
  IN IF i = 0
       THEN RefundResult(w, 404, {}, FALSE, FALSE)
     ELSE IF Has(w.subs[i], "lastPaymentDate")
             /\ DaysSincePayment(w.subs[i], t, env) > RefundWindowDays
       THEN RefundResult(w, 400, {}, FALSE, FALSE)
     ELSE
       LET sub == w.subs[i]
           viaSession == IsSessionId(sub.lastTransactionId)
           \* a session that cannot be retrieved leaves the session id in place
           paymentIntentId == IF viaSession /\ env.session # "fail"
                                THEN env.session ELSE sub.lastTransactionId
           doRefund == Has(sub, "paymentMethod") /\ sub.paymentMethod = "stripe"
                         /\ paymentIntentId # "null"
           calls1 == (IF viaSession /\ Has(sub, "paymentMethod") /\ sub.paymentMethod = "stripe"
                        THEN {"session"} ELSE {})
                       \cup (IF doRefund THEN {"refund"} ELSE {})
           doCancel == HasStripeId(sub)
           calls2 == calls1 \cup (IF doCancel THEN {"cancel"} ELSE {})
           refunded == doRefund /\ env.refund = "ok"
           \* every error of subscriptions.cancel is caught and logged
           alive == doCancel /\ env.cancel = "error"
           w1 == [subs |-> RefundWrite(w.subs, i, refunded, t),
                  role |-> [w.role EXCEPT ![uid] = "user"]]
       IN IF doRefund /\ env.refund = "already_refunded"
            THEN RefundResult(w, 400, calls1, FALSE, FALSE)
          ELSE RefundResult(w1, 200, calls2, refunded, alive)

\* RefundController.checkEligibility: refundStatus is never stored, so the
\* test on it never rejects
checkEligibility(w, uid, env, t) ==
  LET i == FirstIdx(w.subs, LAMBDA d : d.userId = uid /\ Has(d, "lastTransactionId"))
  IN IF i = 0 THEN FALSE
     ELSE IF Has(w.subs[i], "refundStatus") /\ w.subs[i].refundStatus # "none" THEN FALSE
     ELSE ~Has(w.subs[i], "lastPaymentDate")
          \/ DaysSincePayment(w.subs[i], t, env) <= RefundWindowDays

\* ------------------------------------------------- the queue of metrics
\* A metric on the queue: its identity (the order of enqueueing, standing
\* for its timestamp), its event and whether it was added by hand.
MetricEvents == {"subscription_canceled", "page_viewed"}
RetriedEvents == {"checkout_initiated", "subscription_canceled", "subscription_upgraded"}
Metric(id, event, manual) == [id |-> id, event |-> event, manuallyAdded |-> manual]

\* failedMetrics.slice(-n)
LastN(q, n) == IF Len(q) > n THEN SubSeq(q, Len(q) - n + 1, Len(q)) ELSE q

\* PremiumController.storeFailedMetric: push, then keep the last OutboxCap
storeFailedMetric(q, metric) == LastN(Append(q, metric), OutboxCap)

\* MetricRetryService.manuallyAddFailedMetric: push
manuallyAddFailedMetric(q, metric) == Append(q, metric)

\* what the metrics service does to one delivery: "ok" = { success: true },
\* "fail" = { success: false }, "throw" = the call throws
DeliveryOutcomes == {"ok", "fail", "throw"}
IdsOf(q) == {q[i].id : i \in 1..Len(q)}
InQueue(q, id) == id \in IdsOf(q)

\* mutant: a metric is put back only when its delivery throws
retryFailedMetrics_KeepsThrownOnly(q, out) ==
  [queue |-> SelectSeq(q, LAMBDA m : m.event \in RetriedEvents /\ out[m.id] = "throw"),
   attempts |-> SelectSeq(q, LAMBDA m : m.event \in RetriedEvents)]

\* mutant: the loop ends at the first delivery that throws, and the metrics
\* after it are put back without an attempt
retryFailedMetrics_StopsAtThrow(q, out) ==
  LET thrown == {i \in 1..Len(q) : q[i].event \in RetriedEvents /\ out[q[i].id] = "throw"}
      stop == IF thrown = {} THEN Len(q)
              ELSE CHOOSE i \in thrown : \A j \in thrown : i <= j
      head == SubSeq(q, 1, stop)
      tail == SubSeq(q, stop + 1, Len(q))
  IN [queue |-> SelectSeq(head, LAMBDA m : m.event \in RetriedEvents /\ out[m.id] # "ok")
                  \o tail,
      attempts |-> SelectSeq(head, LAMBDA m : m.event \in RetriedEvents)]

\* MetricRetryService.retryFailedMetrics on a queue that is not empty: the
\* metrics of a retried event are attempted in order, one that fails or
\* throws is put back, one of another event is skipped and not put back;
\* the result is the queue written and the metrics attempted
retryFailedMetrics(q, out) ==
  [queue |-> SelectSeq(q, LAMBDA m : m.event \in RetriedEvents /\ out[m.id] # "ok"),
   attempts |-> SelectSeq(q, LAMBDA m : m.event \in RetriedEvents)]

\* ------------------------------------------- creation of the checkout
\* What happens around one createPremiumSubscription: whether the provider
\* gives the customer and the session, whether the store takes the
\* pre-registration, what the metrics service answers, and whether
\* failed-metrics.json can be written.
CreationEnvs ==
  [customer : {"ok", "error"}, session : {"ok", "error"}, store : {"up", "down"},
   metrics : DeliveryOutcomes, disk : {"ok", "fail"}]

CreationBodies == [userId : Users, priceId : Prices]

\* the session stripe.checkout.sessions.create returns
NewSessionId == "cs_new"

\* the answer of createPremiumSubscription: the collections and the queue
\* afterwards, the status code and the session id of the response
CreationResult(w, q, status, sessionId) ==
  [subs |-> w.subs, role |-> w.role, queue |-> q, status |-> status, sessionId |-> sessionId]

\* mutant: the error of the pre-registration is not caught
createPremiumSubscription_StrictPreRegistration(w, q, body, env, id, mode, t) ==
  LET plan == getPlanFromStripePrice(body.priceId)
      w1 == updateSubscription(w, body.userId,
              [plan |-> plan, paymentMethod |-> "stripe", status |-> "pending",
               sessionId |-> NewSessionId, stripeCustomerId |-> CusOf(body.userId),
               stripePriceId |-> body.priceId], mode, t)
      q1 == IF env.metrics # "ok" /\ env.disk = "ok"
              THEN storeFailedMetric(q, Metric(id, "checkout_initiated", FALSE))
              ELSE q
  IN IF env.customer = "error" \/ env.session = "error" \/ env.store = "down"
       THEN CreationResult(w, q, 500, "null")
       ELSE CreationResult(w1, q1, 200, NewSessionId)

\* PremiumController.createPremiumSubscription; id is the identity of the
\* metric of this checkout
createPremiumSubscription(w, q, body, env, id, mode, t) ==
  LET plan == getPlanFromStripePrice(body.priceId)
      \* the pre-registration; its error is logged and the command goes on
      w1 == IF env.store = "up"
              THEN updateSubscription(w, body.userId,
                     [plan |-> plan, paymentMethod |-> "stripe", status |-> "pending",
                      sessionId |-> NewSessionId, stripeCustomerId |-> CusOf(body.userId),
                      stripePriceId |-> body.priceId], mode, t)
              ELSE w
      \* a metric refused or a call that throws goes to storeFailedMetric,
      \* which catches the error of its own write
      q1 == IF env.metrics # "ok" /\ env.disk = "ok"
              THEN storeFailedMetric(q, Metric(id, "checkout_initiated", FALSE))
              ELSE q
  IN IF env.customer = "error" \/ env.session = "error"
       THEN CreationResult(w, q, 500, "null")
       ELSE CreationResult(w1, q1, 200, NewSessionId)

\* ------------------------------------------------ requests in progress
\* The two cancellation requests that run concurrently, and the concurrent
\* writers of failed-metrics.json: two appends and the sweep.
Requests == {1, 2}
Appenders == {"store", "manual"}
Sweeper == "sweep"
NoSeen == [uid |-> NoUser, sid |-> "null", stored |-> Missing, plan |-> "free", endDate |-> Missing]
IdleWriter == [at |-> "idle", buf |-> << >>, id |-> 0]

\* no request is in progress
RaceIdle ==
  /\ pc = [p \in Requests |-> "idle"]
  /\ seen = [p \in Requests |-> NoSeen]
  /\ updates = 0
  /\ writers = [x \in Appenders \cup {Sweeper} |-> IdleWriter]

\* --------------------------------------------------------------- actions
Init ==
  /\ subs = << >>
  /\ role = [u \in Users |-> "user"]
  /\ now = 0
  /\ stripeCape = [sid \in {SubOf(u) : u \in Users} |-> FALSE]
  /\ last = "init"
  /\ ops = 0
  /\ undefMode \in {"null", "any"}
  /\ queue = << >>
  /\ nextId = 0
  /\ sweeps = 0
  /\ deliveries = << >>
  /\ RaceIdle

\* an operation that changes a collection or the provider draws on the budget
\* and is remembered as the last operation; one that changes nothing (a
\* command that fails, an event that is ignored) leaves no trace
Budget(op, changed) ==
  /\ changed => ops < MaxOps
  /\ ops' = IF changed THEN ops + 1 ELSE ops
  /\ last' = IF changed THEN op ELSE last

Tick ==
  /\ now < MaxClock
  /\ now' = now + 1
  /\ UNCHANGED <<subs, role, stripeCape, last, ops, undefMode>>
  /\ UNCHANGED outboxVars
  /\ UNCHANGED raceVars

\* the provider is asked only by the checkout handler
RetrieveFor(type) ==
  IF type = "checkout.session.completed" THEN RetrieveOutcomes ELSE {"fail"}

\* POST /webhook: the event is verified, dispatched and its effect written
Webhook(event, retrieved) ==
  /\ \E signed \in BOOLEAN, storeUp \in BOOLEAN :
       LET r == handleStripeWebhook(World, event, signed, storeUp, retrieved, undefMode, now)
       IN /\ Budget(event.type, r.subs # subs \/ r.role # role)
          /\ subs' = r.subs
          /\ role' = r.role
  /\ UNCHANGED <<now, stripeCape, undefMode>>
  /\ UNCHANGED outboxVars
  /\ UNCHANGED raceVars

CheckoutCompleted ==
  \E event \in EventsOf("checkout.session.completed"), retrieved \in RetrieveOutcomes :
    Webhook(event, retrieved)

SubscriptionDeleted ==
  \E event \in EventsOf("customer.subscription.deleted") : Webhook(event, "fail")

SubscriptionUpdated ==
  \E event \in EventsOf("customer.subscription.updated") : Webhook(event, "fail")

InvoicePaid ==
  \E event \in EventsOf("invoice.paid") : Webhook(event, "fail")

InvoicePaymentFailed ==
  \E event \in EventsOf("invoice.payment_failed") : Webhook(event, "fail")

UnrecognizedEvent ==
  \E event \in EventsOf("customer.created") : Webhook(event, "fail")

StripeRouteWebhook ==
  \E type \in RouteEventTypes : \E event \in RouteEventsOf(type) :
    \E signed \in BOOLEAN, storeUp \in BOOLEAN :
      /\ LET r == stripeWebhookRouter(World, event, signed, storeUp, undefMode, now)
         IN /\ Budget("route:" \o type, r.subs # subs \/ r.role # role)
            /\ subs' = r.subs
            /\ role' = r.role
      /\ UNCHANGED <<now, stripeCape, undefMode>>
      /\ UNCHANGED outboxVars
      /\ UNCHANGED raceVars

SimulateCheckout ==
  \E body \in SimulateBodies, storeUp \in BOOLEAN :
    /\ LET r == simulateCheckout(World, body, storeUp, undefMode, now)
       IN /\ Budget("simulate", r.subs # subs \/ r.role # role)
          /\ subs' = r.subs
          /\ role' = r.role
    /\ UNCHANGED <<now, stripeCape, undefMode>>
    /\ UNCHANGED outboxVars
    /\ UNCHANGED raceVars

Apply(op, r) ==
  /\ Budget(op, r.subs # subs \/ r.role # role \/ r.cape # stripeCape)
  /\ subs' = r.subs
  /\ role' = r.role
  /\ stripeCape' = r.cape
  /\ UNCHANGED <<now, undefMode>>
  /\ UNCHANGED outboxVars
  /\ UNCHANGED raceVars

\* the provider answers only a command that reaches it: one that found its
\* document, and the document names a provider subscription
EnvsFor(w, uid, P(_, _)) ==
  LET i == FirstIdx(w.subs, LAMBDA d : P(d, uid))
  IN IF i > 0 /\ HasStripeId(w.subs[i]) THEN ProviderEnvs ELSE {NoEnv}

CancelAtPeriodEnd ==
  \E uid \in Users : \E env \in EnvsFor(World, uid, IsActiveDoc) :
    Apply("cancel", cancelSubscriptionAtPeriodEnd(World, stripeCape, uid, env, undefMode, now))

Reactivate ==
  \E uid \in Users : \E env \in EnvsFor(World, uid, IsReactivableDoc) :
    Apply("reactivate", reactivateSubscription(World, stripeCape, uid, env, undefMode, now))

ChangePlan ==
  \E uid \in Users, newPlan \in {"monthly", "annual"} :
    \E env \in EnvsFor(World, uid, IsActiveDoc) :
      Apply("changePlan", changePlan(World, stripeCape, uid, newPlan, env, undefMode, now))

CancelImmediately ==
  \E uid \in Users : \E env \in EnvsFor(World, uid, IsCancelableDoc) :
    Apply("cancelImmediately",
          cancelSubscriptionImmediately(World, stripeCape, uid, env, undefMode, now))

Next ==
  \/ Tick
  \/ CheckoutCompleted
  \/ SubscriptionDeleted
  \/ SubscriptionUpdated
  \/ InvoicePaid
  \/ InvoicePaymentFailed
  \/ UnrecognizedEvent
  \/ StripeRouteWebhook
  \/ SimulateCheckout
  \/ CancelAtPeriodEnd
  \/ Reactivate
  \/ ChangePlan
  \/ CancelImmediately

Spec == Init /\ [][Next]_vars

\* ------------------------------------------- the queue of metrics, alone
\* The queue is a file of its own: the operations on it neither read nor
\* write the collections, so its behaviours are explored on their own.
Enqueue(q) ==
  /\ nextId < MaxEnqueues
  /\ queue' = q
  /\ nextId' = nextId + 1
  /\ deliveries' = Append(deliveries, [failed |-> 0, delivered |-> FALSE])
  /\ UNCHANGED sweeps
  /\ UNCHANGED subVars
  /\ UNCHANGED raceVars

StoreFailedMetric ==
  Enqueue(storeFailedMetric(queue, Metric(nextId + 1, "checkout_initiated", FALSE)))

ManuallyAddFailedMetric ==
  \E event \in MetricEvents :
    Enqueue(manuallyAddFailedMetric(queue, Metric(nextId + 1, event, TRUE)))

RetryFailedMetrics ==
  /\ sweeps < MaxSweeps
  /\ queue # << >>
  /\ \E out \in [IdsOf(queue) -> DeliveryOutcomes] :
       LET r == retryFailedMetrics(queue, out)
           tried == IdsOf(r.attempts)
       IN /\ queue' = r.queue
          /\ deliveries' = [id \in DOMAIN deliveries |->
                              IF id \notin tried THEN deliveries[id]
                              ELSE IF out[id] = "ok"
                                THEN [deliveries[id] EXCEPT !.delivered = TRUE]
                              ELSE [deliveries[id] EXCEPT !.failed = @ + 1]]
  /\ sweeps' = sweeps + 1
  /\ UNCHANGED nextId
  /\ UNCHANGED subVars
  /\ UNCHANGED raceVars

OutboxNext ==
  \/ StoreFailedMetric
  \/ ManuallyAddFailedMetric
  \/ RetryFailedMetrics

OutboxInit == Init /\ undefMode = "null"

OutboxSpec == OutboxInit /\ [][OutboxNext]_vars

\* ------------------------------------------------ the refund route, alone
\* POST /refund is declared by the router that requires the refund
\* controller; its behaviours are explored with the operations that create
\* and age the record a refund looks for.
ProcessRefund ==
  \E uid \in Users, env \in RefundEnvs :
    /\ LET r == processRefund(World, uid, env, now)
       IN /\ Budget("refund", r.subs # subs \/ r.role # role)
          /\ subs' = r.subs
          /\ role' = r.role
    /\ UNCHANGED <<now, stripeCape, undefMode>>
    /\ UNCHANGED outboxVars
    /\ UNCHANGED raceVars

RefundNext ==
  \/ Tick
  \/ CheckoutCompleted
  \/ InvoicePaid
  \/ CancelAtPeriodEnd
  \/ ProcessRefund

RefundSpec == Init /\ [][RefundNext]_vars

\* ------------------------------------- two cancellations, step by step
\* cancelSubscriptionAtPeriodEnd awaits the store, the provider twice and the
\* store again; between two awaits of one request another request runs. Each
\* step below is the code between two awaits.
ProviderAnswers == {"none", "missing", "error"}

FallbackEnd(p, t) == LocalPeriodEnd([plan |-> seen[p].plan], t)

\* the record is looked up; a request that finds no active record throws
CancelRead(p) ==
  /\ pc[p] = "idle"
  /\ \E uid \in Users :
       LET i == FirstIdx(subs, LAMBDA d : IsActiveDoc(d, uid))
       IN IF i = 0
            THEN /\ pc' = [pc EXCEPT ![p] = "thrown"]
                 /\ UNCHANGED seen
            ELSE /\ seen' = [seen EXCEPT ![p] =
                       [uid |-> uid,
                        sid |-> IF HasStripeId(subs[i]) THEN subs[i].stripeSubscriptionId
                                ELSE "null",
                        stored |-> EndOf(subs[i]),
                        plan |-> subs[i].plan,
                        endDate |-> IF HasStripeId(subs[i]) THEN EndOf(subs[i])
                                    ELSE LocalPeriodEnd(subs[i], now)]]
                 /\ pc' = [pc EXCEPT ![p] = IF HasStripeId(subs[i]) THEN "retrieve" ELSE "write"]
  /\ UNCHANGED <<updates, writers>>
  /\ UNCHANGED subVars
  /\ UNCHANGED outboxVars

\* stripe.subscriptions.retrieve: a subscription already scheduled skips the
\* update
CancelRetrieve(p) ==
  /\ pc[p] = "retrieve"
  /\ \E fail \in ProviderAnswers, pe \in PeriodEnds \cup {Missing} :
       IF fail = "error"
         THEN pc' = [pc EXCEPT ![p] = "thrown"] /\ UNCHANGED seen
       ELSE IF fail = "missing"
         THEN /\ seen' = [seen EXCEPT ![p].endDate = FallbackEnd(p, now)]
              /\ pc' = [pc EXCEPT ![p] = "write"]
       ELSE IF CapeOf(stripeCape, seen[p].sid)
         THEN LET e1 == IF pe # Missing THEN pe ELSE seen[p].stored
              IN /\ seen' = [seen EXCEPT ![p].endDate =
                                IF e1 = Missing THEN FallbackEnd(p, now) ELSE e1]
                 /\ pc' = [pc EXCEPT ![p] = "write"]
       ELSE pc' = [pc EXCEPT ![p] = "update"] /\ UNCHANGED seen
  /\ UNCHANGED <<updates, writers>>
  /\ UNCHANGED subVars
  /\ UNCHANGED outboxVars

\* stripe.subscriptions.update({ cancel_at_period_end: true })
CancelUpdate(p) ==
  /\ pc[p] = "update"
  /\ \E fail \in ProviderAnswers, pe \in PeriodEnds \cup {Missing} :
       IF fail = "error"
         THEN /\ pc' = [pc EXCEPT ![p] = "thrown"]
              /\ UNCHANGED <<seen, updates, stripeCape>>
       ELSE IF fail = "missing"
         THEN /\ seen' = [seen EXCEPT ![p].endDate = FallbackEnd(p, now)]
              /\ pc' = [pc EXCEPT ![p] = "write"]
              /\ UNCHANGED <<updates, stripeCape>>
       ELSE LET e1 == IF pe # Missing /\ pe > 0 THEN pe ELSE seen[p].stored
            IN /\ stripeCape' = SetCape(stripeCape, seen[p].sid, TRUE)
               /\ updates' = updates + 1
               /\ seen' = [seen EXCEPT ![p].endDate =
                              IF e1 = Missing THEN FallbackEnd(p, now) ELSE e1]
               /\ pc' = [pc EXCEPT ![p] = "write"]
  /\ UNCHANGED <<subs, role, now, last, ops, undefMode, writers>>
  /\ UNCHANGED outboxVars

\* updateSubscription with the end of the period the request has settled on
CancelWrite(p) ==
  /\ pc[p] = "write"
  /\ LET w1 == updateSubscription(World, seen[p].uid,
                 [status |-> "canceled", isActive |-> TRUE, endDate |-> seen[p].endDate,
                  cancelationType |-> "end_of_period", updateUserRole |-> FALSE],
                 undefMode, now)
     IN subs' = w1.subs /\ role' = w1.role
  /\ pc' = [pc EXCEPT ![p] = "done"]
  /\ UNCHANGED <<now, stripeCape, last, ops, undefMode, seen, updates, writers>>
  /\ UNCHANGED outboxVars

CancelReads == \E p \in Requests : CancelRead(p)
CancelRetrieves == \E p \in Requests : CancelRetrieve(p)
CancelUpdates == \E p \in Requests : CancelUpdate(p)
CancelWrites == \E p \in Requests : CancelWrite(p)

CancelRaceNext ==
  \/ Tick
  \/ CheckoutCompleted
  \/ CancelReads
  \/ CancelRetrieves
  \/ CancelUpdates
  \/ CancelWrites

CancelRaceSpec == Init /\ [][CancelRaceNext]_vars

\* ---------------------------------- the writers of the queue, step by step
\* storeFailedMetric, manuallyAddFailedMetric and retryFailedMetrics each
\* await fs.readFile, work on what they read and await fs.writeFile; nothing
\* locks the file in between. Each step below is the code up to one await.
\* The appends are few enough for the size bound never to trim.
MetricOf(a, id) ==
  IF a = "store" THEN Metric(id, "checkout_initiated", FALSE)
  ELSE Metric(id, "subscription_canceled", TRUE)

\* the append reads the file
AppendRead(a) ==
  /\ writers[a].at = "idle"
  /\ nextId < OutboxCap
  /\ writers' = [writers EXCEPT ![a] = [at |-> "read", buf |-> queue, id |-> nextId + 1]]
  /\ nextId' = nextId + 1
  /\ deliveries' = Append(deliveries, [failed |-> 0, delivered |-> FALSE])
  /\ UNCHANGED <<queue, sweeps, pc, seen, updates>>
  /\ UNCHANGED subVars

\* the append writes what it read with its metric pushed
AppendWrite(a) ==
  /\ writers[a].at = "read"
  /\ queue' = IF a = "store"
                THEN storeFailedMetric(writers[a].buf, MetricOf(a, writers[a].id))
                ELSE manuallyAddFailedMetric(writers[a].buf, MetricOf(a, writers[a].id))
  /\ writers' = [writers EXCEPT ![a] = IdleWriter]
  /\ UNCHANGED <<nextId, sweeps, deliveries, pc, seen, updates>>
  /\ UNCHANGED subVars

\* the sweep reads the file; an empty file ends it
SweepRead ==
  /\ writers[Sweeper].at = "idle"
  /\ sweeps < MaxSweeps
  /\ queue # << >>
  /\ writers' = [writers EXCEPT ![Sweeper] = [at |-> "read", buf |-> queue, id |-> 0]]
  /\ UNCHANGED <<pc, seen, updates>>
  /\ UNCHANGED outboxVars
  /\ UNCHANGED subVars

\* the sweep has tried to deliver what it read and writes what is left of it
SweepWrite ==
  /\ writers[Sweeper].at = "read"
  /\ \E out \in [IdsOf(writers[Sweeper].buf) -> DeliveryOutcomes] :
       LET r == retryFailedMetrics(writers[Sweeper].buf, out)
           tried == IdsOf(r.attempts)
       IN /\ queue' = r.queue
          /\ deliveries' = [id \in DOMAIN deliveries |->
                              IF id \notin tried THEN deliveries[id]
                              ELSE IF out[id] = "ok"
                                THEN [deliveries[id] EXCEPT !.delivered = TRUE]
                              ELSE [deliveries[id] EXCEPT !.failed = @ + 1]]
  /\ sweeps' = sweeps + 1
  /\ writers' = [writers EXCEPT ![Sweeper] = IdleWriter]
  /\ UNCHANGED <<nextId, pc, seen, updates>>
  /\ UNCHANGED subVars

AppendReads == \E a \in Appenders : AppendRead(a)
AppendWrites == \E a \in Appenders : AppendWrite(a)

OutboxRaceNext ==
  \/ AppendReads
  \/ AppendWrites
  \/ SweepRead
  \/ SweepWrite

OutboxRaceSpec == OutboxInit /\ [][OutboxRaceNext]_vars

\* ------------------------------------- the creation of checkouts, alone
\* The creation of a checkout writes the pre-registration and, when the
\* metric is not taken, the queue; the sweep empties the queue.
CreatePremiumSubscription ==
  /\ nextId < MaxEnqueues
  /\ \E body \in CreationBodies, env \in CreationEnvs :
       LET r == createPremiumSubscription(World, queue, body, env, nextId + 1, undefMode, now)
       IN /\ Budget("createPremium", r.subs # subs \/ r.role # role)
          /\ subs' = r.subs
          /\ role' = r.role
          /\ queue' = r.queue
          /\ nextId' = IF env.customer = "ok" /\ env.session = "ok" THEN nextId + 1 ELSE nextId
          /\ deliveries' = IF env.customer = "ok" /\ env.session = "ok"
                             THEN Append(deliveries,
                                    [failed |-> IF env.metrics = "ok" THEN 0 ELSE 1,
                                     delivered |-> env.metrics = "ok"])
                             ELSE deliveries
  /\ UNCHANGED <<now, stripeCape, undefMode, sweeps>>
  /\ UNCHANGED raceVars

CreationNext ==
  \/ CreatePremiumSubscription
  \/ RetryFailedMetrics

CreationSpec == Init /\ [][CreationNext]_vars

\* ---------------------------------- the writers of one record, alone
\* A webhook that creates the record, a webhook that mirrors the provider on
\* it and a command that changes its plan: the writers whose partial
\* updates meet on one user's record.
WritersNext ==
  \/ Tick
  \/ CheckoutCompleted
  \/ SubscriptionUpdated
  \/ ChangePlan

WritersSpec == Init /\ [][WritersNext]_vars

\* ---------------------------------------------------------------- claims
Recognized == EventTypes \ {"customer.created"}
AfterEvent(w, event, retrieved) == processWebhookEvent(w, event, retrieved, undefMode, now)
WorldOf(r) == [subs |-> r.subs, role |-> r.role]
StoredEnd(s, u) == IF HasDoc(s, u) THEN EndOf(DocOf(s, u)) ELSE Missing

\* C1: whatever operations have run, no two documents of the Subscription
\* collection carry the same userId, the userId of an unresolved customer
\* included: every write of updateSubscription is an upsert keyed by userId.
C1_OneRecordPerUser ==
  \A i, j \in 1..Len(subs) : subs[i].userId = subs[j].userId => i = j

\* C1 witness: a user's checkout and the deletion of an unknown customer's
\* subscription have both been written: the collection holds the user's
\* document and the one of the unresolved userId.
C1_Witness ==
  /\ Len(subs) = 2
  /\ last = "customer.subscription.deleted"
  /\ \E i \in 1..Len(subs) : subs[i].userId = NoUser
  /\ \E i \in 1..Len(subs) : subs[i].userId \in Users

\* C2 as stated: in every reachable state, customer.subscription.deleted for
\* the customer of a user's record leaves that record with isActive = false
\* and the user with the role 'user'.
C2_DeletedDeactivates ==
  \A u \in Users :
    (HasDoc(subs, u) /\ Has(DocOf(subs, u), "stripeCustomerId")
       /\ DocOf(subs, u).stripeCustomerId = CusOf(u)) =>
      LET r == handleSubscriptionDeleted(World, [customer |-> CusOf(u)], undefMode, now)
      IN /\ HasDoc(r.subs, u)
         /\ DocOf(r.subs, u).isActive = FALSE
         /\ r.role[u] = "user"

\* C3: right after a cancellation at period end that succeeded, a second
\* cancellation of the same user issues no provider update call and leaves
\* the record with the endDate the first one stored.
C3_SecondCancelKeepsEndDate ==
  \A u \in Users :
    (last = "cancel" /\ HasDoc(subs, u)) =>
      \A env \in ProviderEnvs :
        LET r == cancelSubscriptionAtPeriodEnd(World, stripeCape, u, env, undefMode, now)
        IN /\ "update" \notin r.calls
           /\ r.cape = stripeCape
           /\ StoredEnd(r.subs, u) = StoredEnd(subs, u)

\* C3 witness: a cancellation at period end has just succeeded and stored an
\* endDate, and the second call finds the schedule.
C3_Witness ==
  \E u \in Users :
    /\ last = "cancel"
    /\ StoredEnd(subs, u) \in 0..(DateStrBase - 1)
    /\ cancelSubscriptionAtPeriodEnd(World, stripeCape, u, NoEnv, undefMode, now).outcome
         = "already_scheduled"

\* C4 as stated: cancelling a record that is already scheduled (canceled,
\* end_of_period, isActive) completes successfully, without an error.
C4_ScheduledCancelSucceeds ==
  \A u \in Users :
    (HasDoc(subs, u) /\ DocOf(subs, u).status = "canceled" /\ DocOf(subs, u).isActive
       /\ DocOf(subs, u).cancelationType = "end_of_period") =>
      \A env \in ProviderEnvs :
        cancelSubscriptionAtPeriodEnd(World, stripeCape, u, env, undefMode, now).outcome = "ok"

\* C5 as stated: when now >= endDate of a canceled, end_of_period record,
\* reactivateSubscription fails, calls the provider not at all and leaves the
\* record and the role as they were.
C5_ReactivateAfterEndFails ==
  \A u \in Users :
    (HasDoc(subs, u) /\ DocOf(subs, u).status = "canceled"
       /\ DocOf(subs, u).cancelationType = "end_of_period"
       /\ Has(DocOf(subs, u), "endDate") /\ now >= DocOf(subs, u).endDate) =>
      \A env \in ProviderEnvs :
        LET r == reactivateSubscription(World, stripeCape, u, env, undefMode, now)
        IN /\ r.outcome # "ok"
           /\ r.calls = {}
           /\ r.subs = subs
           /\ r.role = role

\* C6: when the user's record does not have cancelationType = end_of_period,
\* reactivateSubscription fails with the domain error, calls the provider not
\* at all and leaves the record, the role and the provider as they were.
C6_ReactivateNeedsEndOfPeriod ==
  \A u \in Users :
    (HasDoc(subs, u) /\ DocOf(subs, u).cancelationType # "end_of_period") =>
      \A env \in ProviderEnvs :
        LET r == reactivateSubscription(World, stripeCape, u, env, undefMode, now)
        IN /\ r.outcome = "not_found"
           /\ r.calls = {}
           /\ r.subs = subs
           /\ r.role = role
           /\ r.cape = stripeCape

\* C6 witness: a record canceled immediately, on which reactivation fails.
C6_Witness ==
  \E u \in Users :
    /\ last = "cancelImmediately"
    /\ HasDoc(subs, u)
    /\ DocOf(subs, u).status = "canceled"
    /\ DocOf(subs, u).cancelationType = "immediate"
    /\ reactivateSubscription(World, stripeCape, u, NoEnv, undefMode, now).outcome = "not_found"

\* C7 as stated: with the clock fixed, processing an event of a recognized
\* type twice leaves the collections as processing it once does, in every
\* reachable state, whatever the provider answers to each delivery.
C7_ReplayAnyAnswer ==
  \A type \in Recognized :
    \A event \in EventsOf(type), first \in RetrieveFor(type), second \in RetrieveFor(type) :
      LET once == AfterEvent(World, event, first)
          twice == AfterEvent(WorldOf(once), event, second)
      IN WorldOf(twice) = WorldOf(once)

\* C7 amended: with the clock fixed and the provider answering the retrieve
\* of the checkout handler the same way on both deliveries, processing an
\* event of a recognized type twice leaves the collections as processing it
\* once does, in every reachable state.
C7_ReplayIsIdempotent ==
  \A type \in Recognized :
    \A event \in EventsOf(type), retrieved \in RetrieveFor(type) :
      LET once == AfterEvent(World, event, retrieved)
          twice == AfterEvent(WorldOf(once), event, retrieved)
      IN WorldOf(twice) = WorldOf(once)

\* C7 witness: customer.subscription.updated has just scheduled a user's
\* record for cancellation, and delivering the event again changes nothing.
C7_Witness ==
  \E u \in Users :
    /\ last = "customer.subscription.updated"
    /\ HasDoc(subs, u)
    /\ DocOf(subs, u).cancelationType = "end_of_period"
    /\ StoredEnd(subs, u) = MaxPeriodEnd
    /\ \E event \in EventsOf(last) :
         /\ event.object.customer = CusOf(u)
         /\ event.object.cancel_at_period_end = "true"
         /\ event.object.current_period_end = MaxPeriodEnd
         /\ WorldOf(AfterEvent(World, event, "fail")) = World

\* the values of endDate that updateSubscription refuses
BadEndDates == {NullV, StrNull, StrEmpty, Garbage, InvalidDate}
IsValidInstant(v) == v \in 0..(DateStrBase - 1)

\* C8: every stored endDate is a valid instant or absent; and in every
\* reachable state an update whose endDate is null, "null", "" or does not
\* parse keeps the stored endDate (or its absence) and applies its other
\* fields.
C8_EndDateValidOrAbsent ==
  /\ \A i \in 1..Len(subs) : Has(subs[i], "endDate") => IsValidInstant(subs[i].endDate)
  /\ \A u \in Users, bad \in BadEndDates, p \in {"monthly", "annual"} :
       LET r == updateSubscription(World, u, [endDate |-> bad, plan |-> p], undefMode, now)
       IN /\ HasDoc(r.subs, u)
          /\ StoredEnd(r.subs, u) = StoredEnd(subs, u)
          /\ DocOf(r.subs, u).plan = p
          /\ DocOf(r.subs, u).updatedAt = now

\* C8 witness: customer.subscription.updated without a period end has just
\* been applied to a record that has no endDate: the plan and the provider
\* id were written, the endDate was not.
C8_Witness ==
  \E u \in Users :
    /\ last = "customer.subscription.updated"
    /\ HasDoc(subs, u)
    /\ ~Has(DocOf(subs, u), "endDate")
    /\ DocOf(subs, u).plan \in {"annual", "premium"}
    /\ DocOf(subs, u).stripeSubscriptionId = SubOf(u)

\* C9: for an active monthly record with a provider subscription,
\* changePlan('annual') that the provider accepts ends with plan annual,
\* status active, endDate equal to the current period end the provider
\* answered, and the role as it was (premium stays premium).
C9_ChangePlanToAnnual ==
  \A u \in Users :
    (HasDoc(subs, u) /\ IsActiveDoc(DocOf(subs, u), u) /\ DocOf(subs, u).plan = "monthly"
       /\ HasStripeId(DocOf(subs, u))) =>
      \A pe \in PeriodEnds :
        LET r == changePlan(World, stripeCape, u, "annual", [fail |-> "none", pe |-> pe],
                            undefMode, now)
        IN /\ r.outcome = "ok"
           /\ DocOf(r.subs, u).plan = "annual"
           /\ DocOf(r.subs, u).status = "active"
           /\ DocOf(r.subs, u).endDate = pe
           /\ r.role[u] = role[u]

\* C9 witness: changePlan has just moved a premium user's record to annual
\* with the provider's period end.
C9_Witness ==
  \E u \in Users :
    /\ last = "changePlan"
    /\ HasDoc(subs, u)
    /\ HasStripeId(DocOf(subs, u))
    /\ DocOf(subs, u).plan = "annual"
    /\ DocOf(subs, u).status = "active"
    /\ StoredEnd(subs, u) = MaxPeriodEnd
    /\ role[u] = "premium"

\* the effects of checkout.session.completed that C10 names, but for the plan
CheckoutCreates(r, u) ==
  /\ r.outcome = "ok"
  /\ Cardinality({i \in 1..Len(r.subs) : r.subs[i].userId = u}) = 1
  /\ Len(r.subs) = Len(subs) + 1
  /\ DocOf(r.subs, u).status = "active"
  /\ DocOf(r.subs, u).isActive = TRUE
  /\ DocOf(r.subs, u).startDate = now
  /\ r.role[u] = "premium"

\* C10 as stated: checkout.session.completed with metadata.userId, the user
\* having no record, creates exactly one record with status active, isActive
\* true, startDate = now and the plan of the event's metadata, and sets the
\* role to premium.
C10_CheckoutCreatesWithEventPlan ==
  \A session \in CheckoutSessions, retrieved \in RetrieveOutcomes :
    (session.userId \in Users /\ ~HasDoc(subs, session.userId) /\ session.plan # "none") =>
      LET r == handleCheckoutSessionCompleted(World, session, retrieved, undefMode, now)
      IN /\ CheckoutCreates(r, session.userId)
         /\ DocOf(r.subs, session.userId).plan = session.plan

\* C10 amended: as above, the plan being the catalog plan of the price of
\* the provider subscription when the session is not the simulated one and
\* the provider returns its subscription, and otherwise the plan of the
\* metadata, 'premium' when the metadata names none.
C10_CheckoutCreatesWithResolvedPlan ==
  \A session \in CheckoutSessions, retrieved \in RetrieveOutcomes :
    (session.userId \in Users /\ ~HasDoc(subs, session.userId)) =>
      LET r == handleCheckoutSessionCompleted(World, session, retrieved, undefMode, now)
          fromProvider == session.id # "cs_test_simulated" /\ retrieved # "fail"
      IN /\ CheckoutCreates(r, session.userId)
         /\ DocOf(r.subs, session.userId).plan =
              IF fromProvider
                THEN (IF retrieved = PRICE_ANNUAL THEN "annual" ELSE "monthly")
              ELSE IF session.plan = "none" THEN "premium"
              ELSE session.plan

\* C10 witness: the first checkout of a user has just created the record,
\* with the plan of the provider's price (the metadata never name annual).
C10_Witness ==
  \E u \in Users :
    /\ last = "checkout.session.completed"
    /\ ops = 1
    /\ Len(subs) = 1
    /\ DocOf(subs, u).plan = "annual"
    /\ DocOf(subs, u).status = "active"
    /\ DocOf(subs, u).startDate = now
    /\ role[u] = "premium"

\* does the provider report a usable period end to a cancellation of d ?
ProviderGivesEnd(d, env) ==
  /\ HasStripeId(d)
  /\ env.fail \notin {"retrieve_missing", "update_missing"}
  /\ env.pe # Missing

\* C11 as stated: a successful cancelSubscriptionAtPeriodEnd stores the
\* period end the provider reports, and when the provider gives none the
\* record's startDate + 1 month for 'monthly', + 1 year for 'annual'.
C11_CancelEndDate ==
  \A u \in Users :
    (HasDoc(subs, u) /\ IsActiveDoc(DocOf(subs, u), u)
       /\ DocOf(subs, u).plan \in {"monthly", "annual"}) =>
      \A env \in ProviderEnvs :
        LET d == DocOf(subs, u)
            r == cancelSubscriptionAtPeriodEnd(World, stripeCape, u, env, undefMode, now)
        IN r.outcome = "ok" =>
             StoredEnd(r.subs, u) =
               IF ProviderGivesEnd(d, env) THEN env.pe
               ELSE IF d.plan = "annual" THEN d.startDate + YearLen
               ELSE d.startDate + MonthLen

\* C12: in every run of the retry, a queued metric whose delivery fails is
\* on the queue afterwards and one whose delivery succeeds is not, and every
\* queued metric of a retried event is delivered in the run: a metric stays
\* queued from sweep to sweep until the first sweep that delivers it.
C12_QueuedUntilDelivered ==
  [][sweeps' = sweeps + 1 =>
       \A i \in 1..Len(queue) :
         LET id == queue[i].id
         IN /\ queue[i].event \in RetriedEvents => deliveries'[id] # deliveries[id]
            /\ deliveries'[id].failed = deliveries[id].failed + 1 => InQueue(queue', id)
            /\ deliveries'[id].delivered => ~InQueue(queue', id)]_vars

\* C12 witness: after the third sweep, a metric whose delivery failed twice
\* and then succeeded is no longer queued.
C12_Witness ==
  \E id \in DOMAIN deliveries :
    /\ sweeps = 3
    /\ deliveries[id] = [failed |-> 2, delivered |-> TRUE]
    /\ ~InQueue(queue, id)

\* C13 as stated: the queue never holds more than OutboxCap metrics, and
\* either enqueue operation on a full queue leaves the OutboxCap most recent
\* metrics, the new one among them.
C13_QueueBounded ==
  /\ Len(queue) <= OutboxCap
  /\ Len(queue) = OutboxCap =>
       \A event \in MetricEvents :
         LET stored == Metric(nextId + 1, "checkout_initiated", FALSE)
             added == Metric(nextId + 1, event, TRUE)
         IN /\ storeFailedMetric(queue, stored) = LastN(Append(queue, stored), OutboxCap)
            /\ manuallyAddFailedMetric(queue, added) = LastN(Append(queue, added), OutboxCap)

\* number of delivery attempts of metric m in one sweep
AttemptsOf(attempts, m) == Cardinality({j \in 1..Len(attempts) : attempts[j].id = m.id})

C15_AlwaysAcknowledged ==
  \A storeUp \in BOOLEAN :
    /\ \A event \in WebhookEvents : \A retrieved \in RetrieveFor(event.type) :
         handleStripeWebhook(World, event, TRUE, storeUp, retrieved, undefMode, now).status = 200
    /\ \A type \in RouteEventTypes : \A event \in RouteEventsOf(type) :
         stripeWebhookRouter(World, event, TRUE, storeUp, undefMode, now).status = 200

\* ---------------------------------------------------------------- C17
\* C17: a request to a mounted webhook endpoint that carries no valid
\* signature changes neither a record nor a role. Violated: POST
\* /webhooks/simulate/checkout asks for no signature and is mounted in every
\* environment.
C17_UnverifiedChangesNothing ==
  \A storeUp \in BOOLEAN :
    /\ \A event \in WebhookEvents : \A retrieved \in RetrieveFor(event.type) :
         LET r == handleStripeWebhook(World, event, FALSE, storeUp, retrieved, undefMode, now)
         IN r.subs = subs /\ r.role = role
    /\ \A type \in RouteEventTypes : \A event \in RouteEventsOf(type) :
         LET r == stripeWebhookRouter(World, event, FALSE, storeUp, undefMode, now)
         IN r.subs = subs /\ r.role = role
    /\ \A body \in SimulateBodies :
         LET r == simulateCheckout(World, body, storeUp, undefMode, now)
         IN r.subs = subs /\ r.role = role

\* ---------------------------------------------------------------- C16
\* the event names no user the service knows: a checkout session without
\* metadata.userId, or a customer no record resolves
MissingCorrelation(w, event) ==
  IF event.type = "checkout.session.completed"
    THEN event.object.userId = NoUser
    ELSE event.type \in Recognized /\ getUserIdFromCustomerId(w, event.object.customer) = NoUser

\* C16: a webhook handler given an event with a missing correlation does
\* not throw, and creates or modifies no record and changes no role.
\* Violated: the checkout handler throws, and the handler of
\* customer.subscription.deleted upserts under the unresolved user.
C16_MissingCorrelationIsNoop ==
  \A event \in WebhookEvents : \A retrieved \in RetrieveFor(event.type) :
    MissingCorrelation(World, event) =>
      LET r == AfterEvent(World, event, retrieved)
      IN r.outcome # "error" /\ r.subs = subs /\ r.role = role

\* ---------------------------------------------------------------- C18
\* The service some operations later: a user has subscribed through the
\* checkout and then canceled immediately. The state is computed by the two
\* handlers from the empty collections; from there on the service runs as
\* it does under Spec, with a fresh budget of operations.
TerminalInit ==
  \E u \in Users : \E session \in CheckoutSessions :
    /\ session.id = "cs_live" /\ session.userId = u /\ session.plan = "monthly"
    /\ LET w0 == [subs |-> << >>, role |-> [v \in Users |-> "user"]]
           cape0 == [sid \in {SubOf(v) : v \in Users} |-> FALSE]
           r1 == handleCheckoutSessionCompleted(w0, session, PRICE_MONTHLY, "null", 0)
           r2 == cancelSubscriptionImmediately(WorldOf(r1), cape0, u, NoEnv, "null", 0)
       IN /\ subs = r2.subs
          /\ role = r2.role
          /\ stripeCape = r2.cape
    /\ now = 0
    /\ last = "cancelImmediately"
    /\ ops = 0
    /\ undefMode \in {"null", "any"}
    /\ queue = << >>
    /\ nextId = 0
    /\ sweeps = 0
    /\ deliveries = << >>
    /\ RaceIdle

TerminalSpec == TerminalInit /\ [][Next]_vars

\* C18: in every reachable state a record with status canceled and
\* cancelationType immediate has isActive false. Violated: a checkout after
\* an immediate cancellation leaves cancelationType as it is, and the
\* handler of customer.subscription.deleted leaves isActive as it is.
C18_ImmediateCancelInactive ==
  \A i \in 1..Len(subs) :
    (subs[i].status = "canceled" /\ subs[i].cancelationType = "immediate") => ~subs[i].isActive

\* the state TerminalSpec starts in is one the service reaches under Spec
TerminalReachable ==
  \E i \in 1..Len(subs) :
    /\ subs[i].status = "canceled" /\ subs[i].cancelationType = "immediate" /\ ~subs[i].isActive
    /\ subs[i].plan = "monthly" /\ last = "cancelImmediately" /\ now = 0

\* ---------------------------------------------------------------- C19
\* the terminal state of a record
IsTerminalDoc(d) == d.status = "canceled" /\ d.cancelationType = "immediate" /\ ~d.isActive

\* the operations that deliver a completed checkout
CheckoutOps == {"checkout.session.completed", "route:checkout.session.completed", "simulate"}

\* C19: a record in the terminal state keeps its status, isActive and
\* cancelationType through every command and every webhook that is not a
\* completed checkout. Violated: customer.subscription.updated of an active
\* provider subscription makes the record active again, and
\* invoice.payment_succeeded on /webhooks/stripe sets its status to active.
C19_TerminalIsFinal ==
  [][\A i \in 1..Len(subs) :
       (IsTerminalDoc(subs[i]) /\ last' \notin CheckoutOps) =>
         /\ subs'[i].status = subs[i].status
         /\ subs'[i].isActive = subs[i].isActive
         /\ subs'[i].cancelationType = subs[i].cancelationType]_vars

\* ---------------------------------------------------------------- C20
\* C20: when reactivateSubscription has succeeded and a
\* customer.subscription.updated event with cancel_at_period_end = true,
\* emitted by the provider before the reactivation, is delivered afterwards,
\* the record stays active. Violated: the handler writes status canceled
\* whatever the record holds.
C20_StaleCancelKeepsActive ==
  \A uid \in Users : \A env \in EnvsFor(World, uid, IsReactivableDoc) :
    LET r == reactivateSubscription(World, stripeCape, uid, env, undefMode, now)
    IN r.outcome = "ok" =>
         \A event \in EventsOf("customer.subscription.updated") :
           (event.object.customer = CusOf(uid) /\ event.object.cancel_at_period_end = "true") =>
             DocOf(AfterEvent(WorldOf(r), event, "fail").subs, uid).status = "active"

\* ---------------------------------------------------------------- C21
\* the provider call that a transient failure of the environment hits
TransientEnvs == {env \in ProviderEnvs : env.fail \in {"retrieve_error", "update_error"}}
FailedCall(env) == IF env.fail = "retrieve_error" THEN "retrieve" ELSE "update"

\* the command met the failure: it issued the call that fails
MetFailure(r, env) == FailedCall(env) \in r.calls

Unchanged(r) == r.subs = subs /\ r.role = role

\* C21: when a provider call of cancelSubscriptionAtPeriodEnd,
\* reactivateSubscription or changePlan fails with anything but not-found,
\* the command ends in an error and the collection of records and the roles
\* are exactly as before.
C21_TransientFailureLeavesState ==
  \A uid \in Users : \A env \in TransientEnvs :
    /\ LET r == cancelSubscriptionAtPeriodEnd(World, stripeCape, uid, env, undefMode, now)
       IN MetFailure(r, env) => r.outcome = "error" /\ Unchanged(r)
    /\ LET r == reactivateSubscription(World, stripeCape, uid, env, undefMode, now)
       IN MetFailure(r, env) => r.outcome = "error" /\ Unchanged(r)
    /\ \A newPlan \in {"monthly", "annual"} :
         LET r == changePlan(World, stripeCape, uid, newPlan, env, undefMode, now)
         IN MetFailure(r, env) => r.outcome = "error" /\ Unchanged(r)

\* a scheduled record with a provider subscription: the reactivation reaches
\* the provider and its update fails
C21_Witness ==
  \E uid \in Users : \E env \in TransientEnvs :
    LET r == reactivateSubscription(World, stripeCape, uid, env, undefMode, now)
    IN /\ env.fail = "update_error"
       /\ MetFailure(r, env)
       /\ r.outcome = "error"
       /\ HasDoc(subs, uid) /\ DocOf(subs, uid).status = "canceled"

\* ---------------------------------------------------------------- C22
\* the audit trail of payments, and the timestamp every update sets
AuditFields ==
  {"lastPaymentDate", "lastTransactionId", "paymentStatus", "paymentFailureReason",
   "lastFailureDate", "updatedAt"}

\* document e is document d but for the audit fields
SameButAudit(d, e) ==
  /\ (DOMAIN d) \ AuditFields = (DOMAIN e) \ AuditFields
  /\ \A f \in (DOMAIN d) \ AuditFields : d[f] = e[f]

InvoiceTypes == {"invoice.paid", "invoice.payment_failed"}

\* C22: invoice.paid and invoice.payment_failed change nothing but the
\* audit fields of a record: no record is added, every other field of
\* every record (status, isActive, plan, cancelationType, endDate among
\* them) and every role are as before.
C22_InvoiceTouchesAuditOnly ==
  \A type \in InvoiceTypes :
    /\ \A event \in EventsOf(type) :
         LET r == AfterEvent(World, event, "fail")
         IN /\ r.role = role
            /\ Len(r.subs) = Len(subs)
            /\ \A i \in 1..Len(subs) : SameButAudit(subs[i], r.subs[i])
    /\ \A event \in RouteEventsOf(type) :
         LET r == stripeWebhookRoute(World, event, undefMode, now)
         IN r.role = role /\ r.subs = subs

\* a failed payment is recorded on the active record of a known customer
C22_Witness ==
  \E event \in EventsOf("invoice.payment_failed") :
    LET r == AfterEvent(World, event, "fail")
        uid == getUserIdFromCustomerId(World, event.object.customer)
    IN /\ uid \in Users
       /\ DocOf(subs, uid).status = "active"
       /\ DocOf(r.subs, uid).paymentStatus = "failed"
       /\ r.subs # subs

\* ---------------------------------------------------------------- C23
\* C23: in every reachable state a canceled record whose endDate has
\* passed has isActive false. Violated: nothing deactivates a record when
\* the clock reaches its endDate; the pre('save') hook never runs, since
\* every write is a findOneAndUpdate, and cleanupExpired has no caller.
C23_ExpiredIsInactive ==
  \A i \in 1..Len(subs) :
    (subs[i].status = "canceled" /\ Has(subs[i], "endDate") /\ now >= subs[i].endDate)
      => ~subs[i].isActive

\* ---------------------------------------------------------------- C24
\* C24: in every reachable state a user's role is premium exactly when the
\* user's record has isActive true. Violated: the handler of
\* customer.subscription.deleted takes the role back and leaves isActive
\* true, and the checkout of /webhooks/stripe creates an active record
\* without granting the role.
C24_PremiumIffActive ==
  \A u \in Users :
    role[u] = "premium" <=> (HasDoc(subs, u) /\ DocOf(subs, u).isActive)

\* ---------------------------------------------------------------- C25
\* C25: in every reachable state the endDate of a record is absent or not
\* earlier than its startDate. Violated: a checkout after an immediate
\* cancellation sets startDate to the current time and leaves the endDate
\* that the cancellation wrote.
C25_EndNotBeforeStart ==
  \A i \in 1..Len(subs) :
    Has(subs[i], "endDate") => subs[i].endDate >= subs[i].startDate

\* ---------------------------------------------------------------- C26
\* C26: a successful cancelSubscriptionAtPeriodEnd leaves the record with
\* status canceled, cancelationType end_of_period and isActive true, and
\* leaves every role as it was.
C26_CancelKeepsEntitlement ==
  \A uid \in Users : \A env \in EnvsFor(World, uid, IsActiveDoc) :
    LET r == cancelSubscriptionAtPeriodEnd(World, stripeCape, uid, env, undefMode, now)
    IN r.outcome = "ok" =>
         /\ DocOf(r.subs, uid).status = "canceled"
         /\ DocOf(r.subs, uid).cancelationType = "end_of_period"
         /\ DocOf(r.subs, uid).isActive
         /\ r.role = role

\* a premium user cancels with the provider and stays premium
C26_Witness ==
  \E uid \in Users : \E env \in EnvsFor(World, uid, IsActiveDoc) :
    LET r == cancelSubscriptionAtPeriodEnd(World, stripeCape, uid, env, undefMode, now)
    IN /\ r.outcome = "ok"
       /\ "update" \in r.calls
       /\ role[uid] = "premium"
       /\ r.role[uid] = "premium"
       /\ DocOf(subs, uid).status = "active"

\* ---------------------------------------------------------------- C27
\* the reactivation that follows a cancellation: the provider answers it
\* when the record names a provider subscription
ReactivationEnvs(w, uid) ==
  IF HasDoc(w.subs, uid) /\ HasStripeId(DocOf(w.subs, uid)) THEN ProviderEnvs ELSE {NoEnv}

\* C27: a successful cancelSubscriptionAtPeriodEnd followed by a successful
\* reactivateSubscription returns the record to status active, isActive
\* true and no cancelationType, with the plan it had, and the role premium.
C27_CancelReactivateRoundTrip ==
  \A uid \in Users : \A env1 \in EnvsFor(World, uid, IsActiveDoc) :
    LET r1 == cancelSubscriptionAtPeriodEnd(World, stripeCape, uid, env1, undefMode, now)
    IN r1.outcome = "ok" =>
         \A env2 \in ReactivationEnvs(WorldOf(r1), uid) :
           LET r2 == reactivateSubscription(WorldOf(r1), r1.cape, uid, env2, undefMode, now)
               d == DocOf(r2.subs, uid)
           IN r2.outcome = "ok" =>
                /\ d.status = "active"
                /\ d.isActive
                /\ d.cancelationType = "null"
                /\ d.plan = DocOf(subs, uid).plan
                /\ r2.role[uid] = "premium"
                /\ Len(r2.subs) = Len(subs)

\* both commands reach the provider and succeed
C27_Witness ==
  \E uid \in Users : \E env1 \in EnvsFor(World, uid, IsActiveDoc) :
    LET r1 == cancelSubscriptionAtPeriodEnd(World, stripeCape, uid, env1, undefMode, now)
    IN /\ r1.outcome = "ok"
       /\ "update" \in r1.calls
       /\ DocOf(r1.subs, uid).cancelationType = "end_of_period"
       /\ \E env2 \in ReactivationEnvs(WorldOf(r1), uid) :
            LET r2 == reactivateSubscription(WorldOf(r1), r1.cape, uid, env2, undefMode, now)
            IN r2.outcome = "ok" /\ "update" \in r2.calls

\* ---------------------------------------------------------------- C28
\* C28: a completed checkout for a user who already has a record leaves the
\* record with status active, isActive true and no cancelationType, and the
\* role premium, on either webhook endpoint. Violated: neither handler
\* writes cancelationType, and the one of /webhooks/stripe writes neither
\* isActive nor the role.
C28_CheckoutResetsRecord ==
  \A u \in Users :
    HasDoc(subs, u) =>
      /\ \A session \in CheckoutSessions : \A retrieved \in RetrieveOutcomes :
           session.userId = u =>
             LET r == handleCheckoutSessionCompleted(World, session, retrieved, undefMode, now)
                 d == DocOf(r.subs, u)
             IN /\ d.status = "active" /\ d.isActive /\ d.cancelationType = "null"
                /\ r.role[u] = "premium"
      /\ \A event \in RouteEventsOf("checkout.session.completed") :
           event.object.userId = u =>
             LET r == stripeWebhookRoute(World, event, undefMode, now)
                 d == DocOf(r.subs, u)
             IN /\ d.status = "active" /\ d.isActive /\ d.cancelationType = "null"
                /\ r.role[u] = "premium"

\* ---------------------------------------------------------------- C29
\* the user has a record with status active
HasActiveStatus(s, uid) == HasDoc(s, uid) /\ DocOf(s, uid).status = "active"

\* C29: when the user has no record with status active, or the new plan is
\* the plan of the record, changePlan fails with a domain error, calls the
\* provider not at all and leaves the records, the roles and the provider's
\* subscription as they were.
C29_ChangePlanPreconditions ==
  \A uid \in Users : \A newPlan \in {"monthly", "annual"} : \A env \in ProviderEnvs :
    (~HasActiveStatus(subs, uid) \/ DocOf(subs, uid).plan = newPlan) =>
      LET r == changePlan(World, stripeCape, uid, newPlan, env, undefMode, now)
      IN /\ r.outcome \in {"not_found", "same_plan"}
         /\ r.calls = {}
         /\ Unchanged(r)
         /\ r.cape = stripeCape

\* an active record with a provider subscription is asked for its own plan
C29_Witness ==
  \E uid \in Users : \E newPlan \in {"monthly", "annual"} :
    /\ HasActiveStatus(subs, uid) /\ HasStripeId(DocOf(subs, uid))
    /\ changePlan(World, stripeCape, uid, newPlan, NoEnv, undefMode, now).outcome = "same_plan"

\* ---------------------------------------------------------------- C30
\* the provider's cancel fails with something other than not-found
CancelFails(d, env) == HasStripeId(d) /\ env.fail = "update_error"

C31_RefundCancelsWithProvider ==
  \A uid \in Users, env \in RefundEnvs :
    LET r == processRefund(World, uid, env, now)
    IN (r.subs # subs \/ r.role # role \/ r.status = 200) => ~r.alive

\* C40: once a refund has been processed or recorded as pending for a
\* user's record, a second refund request of that user is rejected, issues
\* no refund call to the provider and changes nothing. The provider refuses
\* to refund twice the payment it has refunded.
C40_SecondRefundRejected ==
  \A uid \in Users, env1 \in RefundEnvs, env2 \in RefundEnvs :
    LET r1 == processRefund(World, uid, env1, now)
        r2 == processRefund(WorldOf(r1), uid, env2, now)
    IN (r1.status = 200 /\ (r1.refunded => env2.refund = "already_refunded"))
         => /\ r2.status # 200
            /\ "refund" \notin r2.calls
            /\ r2.subs = r1.subs /\ r2.role = r1.role

\* ---------------------------------------------------------------- C32
\* the plan the environment gives to a price identifier
PlanOfPrice(priceId) ==
  IF priceId = PRICE_ANNUAL THEN "annual"
  ELSE IF priceId = PRICE_MONTHLY THEN "monthly"
  ELSE "premium"

\* the record is the mirror of a subscription scheduled for cancellation
IsScheduledMirror(d) ==
  d.status = "canceled" /\ d.cancelationType = "end_of_period" /\ d.isActive

\* the record is the mirror of a subscription that is active again
IsActiveMirror(d) ==
  d.status = "active" /\ d.cancelationType = "null" /\ d.isActive

\* C32: a subscription.updated event with cancel_at_period_end true leaves
\* the record canceled, end_of_period and isActive with every role as it
\* was; one with the flag false and the provider's status active leaves it
\* active, isActive, without cancelationType, and the role premium; in both
\* cases the plan is the one of the event's price and endDate is the end of
\* the period the event carries.
C32_UpdatedMirrorsProvider ==
  \A o \in UpdatedEvents :
    LET uid == getUserIdFromCustomerId(World, o.customer)
        r == handleSubscriptionUpdated(World, o, undefMode, now)
        d == DocOf(r.subs, uid)
    IN (uid \in Users /\ r.outcome = "ok"
        /\ (o.cancel_at_period_end = "true" \/ o.status = "active")) =>
         /\ o.cancel_at_period_end = "true" => IsScheduledMirror(d) /\ r.role = role
         /\ o.cancel_at_period_end = "false" => IsActiveMirror(d) /\ r.role[uid] = "premium"
         /\ d.plan = PlanOfPrice(o.price)
         /\ o.current_period_end \in PeriodEnds => EndOf(d) = o.current_period_end

\* a premium user's record has just been mirrored as scheduled with the end
\* of the period of the event, and the event that clears the flag would
\* mirror it as active again
C32_Witness ==
  \E uid \in Users :
    /\ last = "customer.subscription.updated"
    /\ HasDoc(subs, uid)
    /\ IsScheduledMirror(DocOf(subs, uid))
    /\ EndOf(DocOf(subs, uid)) = MaxPeriodEnd
    /\ role[uid] = "premium"
    /\ \E o \in UpdatedEvents :
         LET r == handleSubscriptionUpdated(World, o, undefMode, now)
         IN /\ o.cancel_at_period_end = "false" /\ o.status = "active"
            /\ r.outcome = "ok"
            /\ IsActiveMirror(DocOf(r.subs, uid))
            /\ r.subs # subs

\* ---------------------------------------------------------------- C33
\* C33: a subscription.updated event with cancel_at_period_end not set and
\* a provider status other than active leaves the record with that status
\* and isActive false, and the user's role is user afterwards.
C33_InactiveStatusRevokes ==
  \A o \in UpdatedEvents :
    LET uid == getUserIdFromCustomerId(World, o.customer)
        r == handleSubscriptionUpdated(World, o, undefMode, now)
    IN (uid \in Users /\ r.outcome = "ok"
        /\ o.cancel_at_period_end = "false" /\ o.status # "active") =>
         /\ DocOf(r.subs, uid).status = o.status
         /\ ~DocOf(r.subs, uid).isActive
         /\ r.role[uid] = "user"

\* ---------------------------------------------------------------- C34
\* events of a type no switch recognizes, about any customer
UnrecognizedEvents == [type : {"customer.created"}, object : [customer : Customers]]

PartialFields == {"plan", "status", "endDate"}
PartialValues(f) ==
  IF f = "plan" THEN {"annual", "free"}
  ELSE IF f = "status" THEN {"canceled"}
  ELSE {MaxPeriodEnd, MaxPeriodEnd + 1}
\* one field with one of its values, or nothing
OneField(f) == {[x \in {} |-> 0]} \cup {[x \in {f} |-> v] : v \in PartialValues(f)}
Partials ==
  {Merge(Merge(a, b), c) : a \in OneField("plan"), b \in OneField("status"),
                           c \in OneField("endDate")} \ {[x \in {} |-> 0]}

\* C35: updateSubscription sets the fields of the partial update (and
\* updatedAt) and keeps every other stored field; of two writes to the same
\* user's record, one after the other in either order, the record keeps the
\* fields only the first one wrote and has the second one's value for every
\* field the second wrote, and stays a single record.
C35_FieldLevelMerge ==
  \A uid \in Users, p \in Partials, q \in Partials :
    LET w1 == updateSubscription(World, uid, p, undefMode, now)
        w2 == updateSubscription(w1, uid, q, undefMode, now)
        d1 == DocOf(w1.subs, uid)
        d2 == DocOf(w2.subs, uid)
    IN /\ \A f \in DOMAIN p : d1[f] = p[f]
       /\ HasDoc(subs, uid) =>
            /\ Len(w1.subs) = Len(subs)
            /\ \A f \in DOMAIN DocOf(subs, uid) \ (DOMAIN p \cup {"updatedAt"}) :
                 Has(d1, f) /\ d1[f] = DocOf(subs, uid)[f]
       /\ Len(w2.subs) = Len(w1.subs)
       /\ \A f \in DOMAIN q : d2[f] = q[f]
       /\ \A f \in DOMAIN p \ DOMAIN q : d2[f] = p[f]

\* a record that names a provider subscription takes a new plan from one
\* writer and a new end of period from another, and keeps what it names
C35_Witness ==
  \E uid \in Users, p \in Partials, q \in Partials :
    LET w2 == updateSubscription(updateSubscription(World, uid, p, undefMode, now),
                                 uid, q, undefMode, now)
    IN /\ HasDoc(subs, uid)
       /\ HasStripeId(DocOf(subs, uid))
       /\ DOMAIN p = {"plan"} /\ DOMAIN q = {"endDate"}
       /\ DocOf(subs, uid).plan # p.plan
       /\ EndOf(DocOf(subs, uid)) # q.endDate
       /\ DocOf(w2.subs, uid).plan = p.plan
       /\ DocOf(w2.subs, uid).endDate = q.endDate
       /\ DocOf(w2.subs, uid).stripeSubscriptionId = DocOf(subs, uid).stripeSubscriptionId

\* ---------------------------------------------------------------- C36
\* C36: two cancellations of the same user that run concurrently make the
\* provider take at most one cancellation update between them, and when
\* both have ended the user has a single record, canceled at the end of the
\* period when nothing but the checkout that created it has written to it.
C36_NoDoubleCancel ==
  /\ updates <= 1
  /\ (\A p \in Requests : pc[p] = "done") =>
       \A uid \in Users :
         /\ Cardinality({i \in 1..Len(subs) : subs[i].userId = uid}) = 1
         /\ last = "checkout.session.completed" /\ ops = 1
              => IsScheduledMirror(DocOf(subs, uid))

\* ---------------------------------------------------------------- C37
\* the append of metric id is still between its read and its write
AppendInProgress(id) == \E a \in Appenders : writers[a].at = "read" /\ writers[a].id = id

\* C37: whatever the interleaving of the appends and the sweep, a metric
\* whose append has ended is on the queue unless one of its deliveries
\* succeeded (the size bound trims nothing here).
C37_NoEntryLost ==
  \A id \in 1..nextId :
    AppendInProgress(id) \/ InQueue(queue, id) \/ deliveries[id].delivered

\* ---------------------------------------------------------------- C38
\* C38: the queue a sweep leaves is the queue it found without the metrics
\* whose delivery succeeded in it, in the order they had; a metric of an
\* event the sweep does not recognize is not delivered, and stays.
C38_SweepKeepsUndelivered ==
  \A out \in [IdsOf(queue) -> DeliveryOutcomes] :
    retryFailedMetrics(queue, out).queue
      = SelectSeq(queue, LAMBDA m : ~(m.event \in RetriedEvents /\ out[m.id] = "ok"))

\* ---------------------------------------------------------------- C39
\* C39: when the provider has given the customer and the session,
\* createPremiumSubscription answers 200 with the session whether or not
\* the pre-registration and the metrics call succeed; a pre-registration
\* that fails leaves the collections as they were, and a metrics call that
\* fails puts the metric on the queue when the file of the queue can be
\* written.
C39_CheckoutSurvivesSideEffects ==
  \A body \in CreationBodies, env \in CreationEnvs :
    LET r == createPremiumSubscription(World, queue, body, env, nextId + 1, undefMode, now)
        metric == Metric(nextId + 1, "checkout_initiated", FALSE)
    IN (env.customer = "ok" /\ env.session = "ok") =>
         /\ r.status = 200
         /\ r.sessionId = NewSessionId
         /\ env.store = "down" => r.subs = subs /\ r.role = role
         /\ env.metrics = "ok" => r.queue = queue
         /\ (env.metrics # "ok" /\ env.disk = "ok") =>
              /\ r.queue = storeFailedMetric(queue, metric)
              /\ InQueue(r.queue, metric.id)

\* a checkout was created although neither the pre-registration nor the
\* metric went through: no record, and the metric waits on the queue
C39_Witness ==
  /\ subs = << >>
  /\ nextId = 1
  /\ Len(queue) = 1
  /\ queue[1].event = "checkout_initiated"
  /\ deliveries[1] = [failed |-> 1, delivered |-> FALSE]

====
